---- MODULE Spec2Model ----
(***************************************************************************)
(* Model of gui/core/process_manager.py: one ManagedProcess instance, the  *)
(* threads that call start() and stop() on it, the output-capture threads  *)
(* (_read_output) that start() creates, and the child OS processes.        *)
(*                                                                         *)
(* Every step is one source line (or one blocking call) of the handler it  *)
(* belongs to; the label of a step is the line number it is about to       *)
(* execute.  self._process is read afresh at every line that mentions it,  *)
(* as the Python code does.  What may fail in the environment (Popen,      *)
(* terminate(), readline()) fails nondeterministically, taking the except  *)
(* branch the code has for it.  The event log records every signal the     *)
(* instance emits, in emission order.                                      *)
(*                                                                         *)
(* SpecRegistry models the ProcessManager registry with the instances it   *)
(* tracks, SpecLines the same instance with longer outputs, and SpecWindow *)
(* the handlers of gui/ui/main_window.py that call the registry.           *)
(***************************************************************************)
EXTENDS Integers, Sequences, FiniteSets, TLC

\* ---------------------------------------------------------------- bounds
MaxRuns  == 2   \* child processes launched over the life of the instance
MaxLines == 1   \* output lines one child writes
MaxCalls == 3   \* start()/stop() calls issued in total
MaxRegCalls == 4  \* start()/stop()/stop_all() calls issued on a registry
LongLines == 2    \* output lines one child writes, where their order is studied
LongCalls == 2    \* start()/stop() calls issued in total, in the same study
WindowCalls == 3  \* start()/stop()/stop_all() calls issued under the main window

MainCaller   == "c1"             \* the thread that calls start() and stop()
SecondCaller == "c2"             \* a second thread, calling stop() only
Callers == {MainCaller, SecondCaller}
Pids    == 1..MaxRuns            \* child n (and capture thread n) of run n
Names   == {"training", "enjoy"} \* process names the GUI modules use

\* ------------------------------------------------------- program constants
STOPPED == "stopped"             \* ProcessState.STOPPED
RUNNING == "running"             \* ProcessState.RUNNING
PAUSED  == "paused"              \* ProcessState.PAUSED
ERROR   == "error"               \* ProcessState.ERROR
ProcessState == {STOPPED, RUNNING, PAUSED, ERROR}

NoProc   == 0                    \* self._process is None / no thread
ExitOwn  == 0                    \* return code of a child that exits by itself
TermCode == -15                  \* return code after terminate() (SIGTERM)
KillCode == -9                   \* return code after kill() (SIGKILL)

VARIABLES
    state,            \* self._state
    stop_requested,   \* self._stop_requested
    process,          \* self._process: pid of the Popen object, or NoProc
    output_thread,    \* self._output_thread: id of the thread, or NoProc
    proc,             \* the OS: per pid, status, return code, pipe, pending SIGTERM
    launched,         \* number of children created so far
    pc,               \* per caller: the line it is about to execute
    target,           \* per caller: the pid its call in progress found or created
    ret,              \* per caller: what its last call returned ("-": nothing yet)
    tpc,              \* per capture thread: the line it is about to execute
    bound,            \* per capture thread: pid whose stdout.readline it holds
    line,             \* per capture thread: the line read and not yet emitted
    return_code,      \* per capture thread: local return_code (line 140)
    waited,           \* per capture thread: pid that line 140 waited on
    events,           \* every signal emitted, in emission order
    calls             \* number of start() and of stop() calls issued so far

obj     == <<state, stop_requested, process, output_thread>>
os      == <<proc, launched>>
callers == <<pc, target, ret, calls>>
threads == <<tpc, bound, line, return_code, waited>>
single  == <<state, stop_requested, process, output_thread, proc, launched,
             pc, target, ret, tpc, bound, line, return_code, waited,
             events, calls>>

\* The registry (ProcessManager) with the instances it tracks, as seen by
\* the GUI thread that owns it.
VARIABLES
    processes,        \* self._processes: <<name, ref>> pairs in insertion order
    heap,             \* the ManagedProcess objects constructed so far, by ref
    rcall,            \* the registry-level call in progress and its position
    rret,             \* what the last registry-level call returned
    result,           \* get_running_processes: the list built so far
    snapshot,         \* refs that were running when the stop_all() or
                      \* get_running_processes() in progress was called
    invoked,          \* refs on which the stop_all() in progress called stop()
    rcalls            \* number of start()/stop()/stop_all() calls issued so far

registry == <<processes, heap, rcall, rret, result, snapshot, invoked, rcalls>>

\* The main window (MainWindow), which owns the registry: the handler of
\* the GUI thread that is running, its position and its locals.
VARIABLE window

vars    == <<single, registry, window>>

\* ----------------------------------------------------------------- events
\* k: which signal / diagnostic; run: the run it is about (0: none);
\* n: line number or return code; by: the emitting thread.
Ev(k, run, n, by) == [k |-> k, run |-> run, n |-> n, by |-> by]

\* The name of capture thread t as an emitter.
Reader(t) == "reader" \o ToString(t)

StateKind(v) == "state_" \o v


\* Emit: output_received.emit / finished.emit
Emit(e) == events' = Append(events, e)

\* The state setter (lines 46-51) runs as three steps of the thread that
\* assigns self.state at source line `at`: the test of line 49 (label at),
\* the assignment of line 50 (label at + "w") and the emit of line 51
\* (label at + "e"). Other threads run between them.
\* In a caller (start, stop):
CallerSetTest(c, at, v, after) ==
    /\ pc[c] = at
    /\ pc' = [pc EXCEPT ![c] = IF state # v THEN at \o "w" ELSE after]
    /\ UNCHANGED <<obj, os, target, ret, calls, threads, events>>
    /\ UNCHANGED <<registry, window>>

CallerSetAssign(c, at, v) ==
    /\ pc[c] = at \o "w"
    /\ state' = v
    /\ pc' = [pc EXCEPT ![c] = at \o "e"]
    /\ UNCHANGED <<stop_requested, process, output_thread, os, target, ret,
                   calls, threads, events>>
    /\ UNCHANGED <<registry, window>>

CallerSetEmit(c, at, v, after) ==
    /\ pc[c] = at \o "e"
    /\ Emit(Ev(StateKind(v), 0, 0, c))
    /\ pc' = [pc EXCEPT ![c] = after]
    /\ UNCHANGED <<obj, os, target, ret, calls, threads>>
    /\ UNCHANGED <<registry, window>>

\* In a capture thread (_read_output):
ReaderSetTest(t, at, v, after) ==
    /\ tpc[t] = at
    /\ tpc' = [tpc EXCEPT ![t] = IF state # v THEN at \o "w" ELSE after]
    /\ UNCHANGED <<obj, os, callers, bound, line, return_code, waited, events>>
    /\ UNCHANGED <<registry, window>>

ReaderSetAssign(t, at, v) ==
    /\ tpc[t] = at \o "w"
    /\ state' = v
    /\ tpc' = [tpc EXCEPT ![t] = at \o "e"]
    /\ UNCHANGED <<stop_requested, process, output_thread, os, callers,
                   bound, line, return_code, waited, events>>
    /\ UNCHANGED <<registry, window>>

ReaderSetEmit(t, at, v, after) ==
    /\ tpc[t] = at \o "e"
    /\ Emit(Ev(StateKind(v), 0, 0, Reader(t)))
    /\ tpc' = [tpc EXCEPT ![t] = after]
    /\ UNCHANGED <<obj, os, callers, bound, line, return_code, waited>>
    /\ UNCHANGED <<registry, window>>

\* Popen.poll() is None
Alive(p) == p # NoProc /\ proc[p].st = "alive"

\* The pipe of child p holds a line to read.
HasLineOf(p, m) ==
    proc[p].rd < (IF proc[p].st = "alive" THEN m ELSE proc[p].out)

\* The same for children that write up to MaxLines lines.
HasLine(p) == HasLineOf(p, MaxLines)

\* ManagedProcess.is_running
is_running == process # NoProc /\ Alive(process)

\* ------------------------------------------------------- registry objects
NoRef == 0                       \* None where a ManagedProcess is expected

\* ManagedProcess.__init__ (lines 27-39): the object a registry constructs.
\* handle: self._process is None ("none"), names a live child ("alive") or
\* an exited one ("dead");
\* runs: children launched so far; thr: per run, the line its capture
\* thread is about to execute; last: the signal the object emitted last
\* (output lines left aside).
Fresh ==
    [state |-> STOPPED, stop_requested |-> FALSE, handle |-> "none",
     runs |-> 0, thr |-> [r \in Pids |-> "none"], last |-> "-"]

\* Nothing returned: a call is in progress, or none was made yet.
NoReturn ==
    [call |-> "-", arg |-> "-", kind |-> "-", ref |-> NoRef, names |-> << >>]

\* No registry-level call is in progress.
IdleCall == [op |-> "idle", at |-> "-", ref |-> NoRef, k |-> 0]

\* No handler of the main window is running; event is what the last
\* closeEvent did with its event, stopped whether that handler called
\* stop_all().
NoHandler ==
    [h |-> "idle", at |-> "-", running |-> << >>, reply |-> "-",
     event |-> "-", stopped |-> FALSE]

\* ProcessManager.__init__ (lines 155-162): an empty registry
RegInit ==
    /\ processes = << >>
    /\ heap = << >>
    /\ rcall = IdleCall
    /\ rret = NoReturn
    /\ result = << >>
    /\ snapshot = {}
    /\ invoked = {}
    /\ rcalls = 0

\* ------------------------------------------------------------------- Init
Init ==
    /\ RegInit
    /\ window = NoHandler
    /\ state = STOPPED
    /\ stop_requested = FALSE
    /\ process = NoProc
    /\ output_thread = NoProc
    /\ proc = [p \in Pids |-> [st |-> "none", rc |-> 0, out |-> 0, rd |-> 0,
                               termed |-> FALSE]]
    /\ launched = 0
    /\ pc = [c \in Callers |-> "idle"]
    /\ target = [c \in Callers |-> NoProc]
    /\ ret = [c \in Callers |-> "-"]
    /\ tpc = [t \in Pids |-> "none"]
    /\ bound = [t \in Pids |-> NoProc]
    /\ line = [t \in Pids |-> 0]
    /\ return_code = [t \in Pids |-> 0]
    /\ waited = [t \in Pids |-> NoProc]
    /\ events = << >>
    /\ calls = [start |-> 0, stop |-> 0]

\* ------------------------------------------------------------ the children
\* A child writes lines 1, 2, ... to its stdout pipe (stderr is merged into
\* it).  While it lives, the line after the last one read is there as soon
\* as the child has written it (proc[p].rd counts the lines read); when it
\* exits, proc[p].out is the number of lines it wrote in all, so the lines
\* rd+1..out are still in the pipe and end-of-file follows them.

\* Child p has exited with return code rc, having written n lines; a
\* pending SIGTERM is gone with it.
Exited(p, rc, n) ==
    [proc EXCEPT ![p] = [st |-> "dead", rc |-> rc, out |-> n, rd |-> @.rd,
                         termed |-> FALSE]]

\* The child exits by itself.
ChildExitOf(p, m) ==
    /\ proc[p].st = "alive"
    /\ \E n \in proc[p].rd..m : proc' = Exited(p, ExitOwn, n)
    /\ UNCHANGED <<obj, launched, callers, threads, events>>
    /\ UNCHANGED <<registry, window>>

\* The child, writing up to MaxLines lines, exits by itself.
ChildExit(p) == ChildExitOf(p, MaxLines)

\* The child dies of the SIGTERM that terminate() sent; a child that
\* ignores SIGTERM never takes this step.
ChildTerminatedOf(p, m) ==
    /\ proc[p].st = "alive"
    /\ proc[p].termed
    /\ \E n \in proc[p].rd..m : proc' = Exited(p, TermCode, n)
    /\ UNCHANGED <<obj, launched, callers, threads, events>>
    /\ UNCHANGED <<registry, window>>

\* The child, writing up to MaxLines lines, dies of the SIGTERM.
ChildTerminated(p) == ChildTerminatedOf(p, MaxLines)

\* ------------------------------------------------------------------ start
\* A caller invokes start(command): line 69 is next.
CallStartOf(c, m) ==
    /\ pc[c] = "idle"
    /\ calls.start + calls.stop < m
    /\ pc' = [pc EXCEPT ![c] = "s69"]
    /\ ret' = [ret EXCEPT ![c] = "-"]
    /\ calls' = [calls EXCEPT !.start = @ + 1]
    /\ UNCHANGED <<obj, os, target, threads, events>>
    /\ UNCHANGED <<registry, window>>

\* start() is called, as one of up to MaxCalls calls.
CallStart(c) == CallStartOf(c, MaxCalls)

\* Line 69 as it would be if it tested the recorded state instead of
\* polling the child: a start() is let through whenever state is not Running.
StartCheckByState(c) ==
    /\ pc[c] = "s69"
    /\ pc' = [pc EXCEPT ![c] = IF state = RUNNING THEN "s70" ELSE "s74"]
    /\ UNCHANGED <<obj, os, target, ret, calls, threads, events>>
    /\ UNCHANGED <<registry, window>>

\* line 69: if self._process is not None and self._process.poll() is None
StartCheck(c) ==
    /\ pc[c] = "s69"
    /\ pc' = [pc EXCEPT ![c] = IF is_running THEN "s70" ELSE "s74"]
    /\ UNCHANGED <<obj, os, target, ret, calls, threads, events>>
    /\ UNCHANGED <<registry, window>>

\* Lines 70-71 as they would be with the reset of _stop_requested (line 74)
\* hoisted above the check of line 69: the rejected call clears the flag.
StartAlreadyRunningResets(c) ==
    /\ pc[c] = "s70"
    /\ Emit(Ev("already_running", 0, 0, c))
    /\ stop_requested' = FALSE
    /\ pc' = [pc EXCEPT ![c] = "idle"]
    /\ ret' = [ret EXCEPT ![c] = "False"]
    /\ UNCHANGED <<state, process, output_thread, os, target, calls, threads>>
    /\ UNCHANGED <<registry, window>>

\* lines 70-71: emit "Process already running"; return False
StartAlreadyRunning(c) ==
    /\ pc[c] = "s70"
    /\ Emit(Ev("already_running", 0, 0, c))
    /\ pc' = [pc EXCEPT ![c] = "idle"]
    /\ ret' = [ret EXCEPT ![c] = "False"]
    /\ UNCHANGED <<obj, os, target, calls, threads>>
    /\ UNCHANGED <<registry, window>>

\* Variant of line 74 that leaves the flag as the previous run left it.
StartResetFlagSkipped(c) ==
    /\ pc[c] = "s74"
    /\ pc' = [pc EXCEPT ![c] = "s75"]
    /\ UNCHANGED <<state, stop_requested, process, output_thread, os, target,
                   ret, calls, threads, events>>
    /\ UNCHANGED <<registry, window>>

\* line 74: self._stop_requested = False
StartResetFlag(c) ==
    /\ pc[c] = "s74"
    /\ stop_requested' = FALSE
    /\ pc' = [pc EXCEPT ![c] = "s75"]
    /\ UNCHANGED <<state, process, output_thread, os, target, ret, calls,
                   threads, events>>
    /\ UNCHANGED <<registry, window>>

\* lines 75-83: self._process = subprocess.Popen(...) succeeds
StartPopen(c) ==
    /\ pc[c] = "s75"
    /\ launched < MaxRuns
    /\ launched' = launched + 1
    /\ proc' = [proc EXCEPT ![launched + 1].st = "alive"]
    /\ process' = launched + 1
    /\ target' = [target EXCEPT ![c] = launched + 1]
    /\ pc' = [pc EXCEPT ![c] = "s84"]
    /\ UNCHANGED <<state, stop_requested, output_thread, ret, calls,
                   threads, events>>
    /\ UNCHANGED <<registry, window>>

\* Variant of the failed Popen in which the assignment of line 75 still
\* takes place, storing None in self._process.
StartPopenFailsClearsHandle(c) ==
    /\ pc[c] = "s75"
    /\ process' = NoProc
    /\ pc' = [pc EXCEPT ![c] = "s97"]
    /\ UNCHANGED <<state, stop_requested, output_thread, os, target, ret,
                   calls, threads, events>>
    /\ UNCHANGED <<registry, window>>

\* lines 75-83, 96: Popen raises (executable missing, permission denied)
StartPopenFails(c) ==
    /\ pc[c] = "s75"
    /\ pc' = [pc EXCEPT ![c] = "s97"]
    /\ UNCHANGED <<obj, os, target, ret, calls, threads, events>>
    /\ UNCHANGED <<registry, window>>

\* line 84: self.state = ProcessState.RUNNING
StartSetRunning(c) == CallerSetTest(c, "s84", RUNNING, "s85")

StartSetRunningAssign(c) == CallerSetAssign(c, "s84", RUNNING)

StartSetRunningEmit(c) == CallerSetEmit(c, "s84", RUNNING, "s85")

\* Lines 85-93 as they would be with the thread started before the
\* "Started" diagnostic is emitted.
StartEmitStartedLate(c) ==
    /\ pc[c] = "s85"
    /\ tpc' = [tpc EXCEPT ![target[c]] = "t129"]
    /\ pc' = [pc EXCEPT ![c] = "s90"]
    /\ Emit(Ev("started", target[c], 0, c))
    /\ UNCHANGED <<obj, os, target, ret, calls, bound, line, return_code,
                   waited>>
    /\ UNCHANGED <<registry, window>>

\* lines 85-87: emit "Started: <command>"
StartEmitStarted(c) ==
    /\ pc[c] = "s85"
    /\ Emit(Ev("started", target[c], 0, c))
    /\ pc' = [pc EXCEPT ![c] = "s90"]
    /\ UNCHANGED <<obj, os, target, ret, calls, threads>>
    /\ UNCHANGED <<registry, window>>

\* lines 90-95: create and start the reader thread; return True
StartThread(c) ==
    /\ pc[c] = "s90"
    /\ output_thread' = target[c]
    /\ tpc' = [tpc EXCEPT ![target[c]] = "t129"]
    /\ pc' = [pc EXCEPT ![c] = "idle"]
    /\ ret' = [ret EXCEPT ![c] = "True"]
    /\ target' = [target EXCEPT ![c] = NoProc]
    /\ UNCHANGED <<state, stop_requested, process, os, calls,
                   bound, line, return_code, waited, events>>
    /\ UNCHANGED <<registry, window>>

\* The except branch of start() as it would be without line 97: the
\* failure is reported but the state is left as it was.
StartSetErrorSkipped(c) ==
    /\ pc[c] = "s97"
    /\ pc' = [pc EXCEPT ![c] = "s98"]
    /\ UNCHANGED <<obj, os, target, ret, calls, threads, events>>
    /\ UNCHANGED <<registry, window>>

\* line 97: self.state = ProcessState.ERROR
StartSetError(c) == CallerSetTest(c, "s97", ERROR, "s98")

StartSetErrorAssign(c) == CallerSetAssign(c, "s97", ERROR)

StartSetErrorEmit(c) == CallerSetEmit(c, "s97", ERROR, "s98")

\* lines 98-99: emit "Error starting: <e>"; return False
StartEmitError(c) ==
    /\ pc[c] = "s98"
    /\ Emit(Ev("error_starting", 0, 0, c))
    /\ pc' = [pc EXCEPT ![c] = "idle"]
    /\ ret' = [ret EXCEPT ![c] = "False"]
    /\ UNCHANGED <<obj, os, target, calls, threads>>
    /\ UNCHANGED <<registry, window>>

\* ------------------------------------------------------------------- stop
\* A caller invokes stop(): line 103 is next.
CallStopOf(c, m) ==
    /\ pc[c] = "idle"
    /\ calls.start + calls.stop < m
    /\ pc' = [pc EXCEPT ![c] = "p103"]
    /\ ret' = [ret EXCEPT ![c] = "-"]
    /\ calls' = [calls EXCEPT !.stop = @ + 1]
    /\ UNCHANGED <<obj, os, target, threads, events>>
    /\ UNCHANGED <<registry, window>>

\* stop() is called, as one of up to MaxCalls calls.
CallStop(c) == CallStopOf(c, MaxCalls)

\* line 103: self._stop_requested = True
StopSetFlag(c) ==
    /\ pc[c] = "p103"
    /\ stop_requested' = TRUE
    /\ pc' = [pc EXCEPT ![c] = "p104"]
    /\ UNCHANGED <<state, process, output_thread, os, target, ret, calls,
                   threads, events>>
    /\ UNCHANGED <<registry, window>>

\* Line 104 as it would be with the finally block of lines 116-118 around
\* the whole body: a stop() that finds no live process still stores Stopped.
StopCheckMarksStopped(c) ==
    /\ pc[c] = "p104"
    /\ IF is_running
       THEN /\ pc' = [pc EXCEPT ![c] = "p105"]
            /\ target' = [target EXCEPT ![c] = process]
            /\ UNCHANGED <<state, ret>>
       ELSE /\ pc' = [pc EXCEPT ![c] = "idle"]
            /\ ret' = [ret EXCEPT ![c] = "None"]
            /\ state' = STOPPED
            /\ UNCHANGED target
    /\ UNCHANGED <<stop_requested, process, output_thread, os, calls, threads,
                   events>>
    /\ UNCHANGED <<registry, window>>

\* line 104: if self._process is not None and self._process.poll() is None
\* (otherwise stop() returns)
StopCheck(c) ==
    /\ pc[c] = "p104"
    /\ pc' = [pc EXCEPT ![c] = IF is_running THEN "p105" ELSE "idle"]
    /\ target' = [target EXCEPT ![c] = IF is_running THEN process ELSE NoProc]
    /\ ret' = [ret EXCEPT ![c] = IF is_running THEN @ ELSE "None"]
    /\ UNCHANGED <<obj, os, calls, threads, events>>
    /\ UNCHANGED <<registry, window>>

\* line 105: emit "Stopping..."
StopEmitStopping(c) ==
    /\ pc[c] = "p105"
    /\ Emit(Ev("stopping", target[c], 0, c))
    /\ pc' = [pc EXCEPT ![c] = "p107"]
    /\ UNCHANGED <<obj, os, target, ret, calls, threads>>
    /\ UNCHANGED <<registry, window>>

\* line 107: self._process.terminate() sends SIGTERM to a child that has
\* not exited (Popen.send_signal does nothing for one that has)
StopTerminate(c) ==
    /\ pc[c] = "p107"
    /\ proc' = [proc EXCEPT ![process].termed = @ \/ Alive(process)]
    /\ pc' = [pc EXCEPT ![c] = "p110"]
    /\ UNCHANGED <<obj, launched, target, ret, calls, threads, events>>
    /\ UNCHANGED <<registry, window>>

\* Line 107 as it would be without the except clause of line 114: the
\* error of terminate() leaves stop() as an exception (the finally block
\* still runs first; here only the way the call ends is kept).
StopTerminateRaises(c) ==
    /\ pc[c] = "p107"
    /\ Alive(process)
    /\ pc' = [pc EXCEPT ![c] = "idle"]
    /\ ret' = [ret EXCEPT ![c] = "raised"]
    /\ target' = [target EXCEPT ![c] = NoProc]
    /\ UNCHANGED <<obj, os, calls, threads, events>>
    /\ UNCHANGED <<registry, window>>

\* lines 107, 114: terminate() raises (the OS refuses the signal)
StopTerminateFails(c) ==
    /\ pc[c] = "p107"
    /\ Alive(process)
    /\ pc' = [pc EXCEPT ![c] = "p115"]
    /\ UNCHANGED <<obj, os, target, ret, calls, threads, events>>
    /\ UNCHANGED <<registry, window>>

\* line 110: self._process.wait(timeout=5) returns: the child has exited
StopWaitReturns(c) ==
    /\ pc[c] = "p110"
    /\ ~Alive(process)
    /\ pc' = [pc EXCEPT ![c] = "p117"]
    /\ UNCHANGED <<obj, os, target, ret, calls, threads, events>>
    /\ UNCHANGED <<registry, window>>

\* lines 110-111: the grace period expires with the child still alive
StopWaitTimeout(c) ==
    /\ pc[c] = "p110"
    /\ Alive(process)
    /\ pc' = [pc EXCEPT ![c] = "p112"]
    /\ UNCHANGED <<obj, os, target, ret, calls, threads, events>>
    /\ UNCHANGED <<registry, window>>

\* line 112: self._process.kill() sends SIGKILL, which ends the child
StopKillOf(c, m) ==
    /\ pc[c] = "p112"
    /\ IF Alive(process)
       THEN \E n \in proc[process].rd..m :
                proc' = Exited(process, KillCode, n)
       ELSE proc' = proc
    /\ pc' = [pc EXCEPT ![c] = "p113"]
    /\ UNCHANGED <<obj, launched, target, ret, calls, threads, events>>
    /\ UNCHANGED <<registry, window>>

\* line 112 on a child that writes up to MaxLines lines
StopKill(c) == StopKillOf(c, MaxLines)

\* line 113: self._process.wait() returns once the child has exited
StopWaitKilled(c) ==
    /\ pc[c] = "p113"
    /\ ~Alive(process)
    /\ pc' = [pc EXCEPT ![c] = "p117"]
    /\ UNCHANGED <<obj, os, target, ret, calls, threads, events>>
    /\ UNCHANGED <<registry, window>>

\* line 115: emit "Error stopping: <e>"
StopEmitError(c) ==
    /\ pc[c] = "p115"
    /\ Emit(Ev("error_stopping", target[c], 0, c))
    /\ pc' = [pc EXCEPT ![c] = "p117"]
    /\ UNCHANGED <<obj, os, target, ret, calls, threads>>
    /\ UNCHANGED <<registry, window>>

\* line 117 (finally): self.state = ProcessState.STOPPED
StopSetStopped(c) == CallerSetTest(c, "p117", STOPPED, "p118")

StopSetStoppedAssign(c) == CallerSetAssign(c, "p117", STOPPED)

StopSetStoppedEmit(c) == CallerSetEmit(c, "p117", STOPPED, "p118")

\* line 118: emit "Stopped"; stop() returns
StopEmitStopped(c) ==
    /\ pc[c] = "p118"
    /\ Emit(Ev("stopped", target[c], 0, c))
    /\ pc' = [pc EXCEPT ![c] = "idle"]
    /\ target' = [target EXCEPT ![c] = NoProc]
    /\ ret' = [ret EXCEPT ![c] = "None"]
    /\ UNCHANGED <<obj, os, calls, threads>>
    /\ UNCHANGED <<registry, window>>

\* ----------------------------------------------------------- _read_output
\* _read_output returns: the thread ends and its locals are gone
ThreadEnds(t) ==
    /\ tpc' = [tpc EXCEPT ![t] = "done"]
    /\ bound' = [bound EXCEPT ![t] = NoProc]
    /\ line' = [line EXCEPT ![t] = 0]
    /\ return_code' = [return_code EXCEPT ![t] = 0]
    /\ waited' = [waited EXCEPT ![t] = NoProc]

\* lines 129-133: self._process is set; iter(self._process.stdout.readline, "")
\* binds the readline of the process that self._process names now
ReadBegin(t) ==
    /\ tpc[t] = "t129"
    /\ bound' = [bound EXCEPT ![t] = process]
    /\ tpc' = [tpc EXCEPT ![t] = "t133"]
    /\ UNCHANGED <<obj, os, callers, line, return_code, waited, events>>
    /\ UNCHANGED <<registry, window>>

\* line 133: readline() returns the next line of the pipe
ReadLineOf(t, m) ==
    /\ tpc[t] = "t133"
    /\ HasLineOf(bound[t], m)
    /\ proc' = [proc EXCEPT ![bound[t]].rd = @ + 1]
    /\ line' = [line EXCEPT ![t] = proc[bound[t]].rd + 1]
    /\ tpc' = [tpc EXCEPT ![t] = "t134"]
    /\ UNCHANGED <<obj, launched, callers, bound, return_code, waited, events>>
    /\ UNCHANGED <<registry, window>>

\* line 133 on a child that writes up to MaxLines lines
ReadLine(t) == ReadLineOf(t, MaxLines)

\* line 133: readline() returns "": the child has exited and the pipe is empty
ReadEof(t) ==
    /\ tpc[t] = "t133"
    /\ proc[bound[t]].rd = proc[bound[t]].out
    /\ proc[bound[t]].st = "dead"
    /\ tpc' = [tpc EXCEPT ![t] = "t140"]
    /\ UNCHANGED <<obj, os, callers, bound, line, return_code, waited, events>>
    /\ UNCHANGED <<registry, window>>

\* lines 133, 147: readline() raises (the bytes read do not decode as text)
ReadFailsOf(t, m) ==
    /\ tpc[t] = "t133"
    /\ HasLineOf(bound[t], m)
    /\ proc' = [proc EXCEPT ![bound[t]].rd = @ + 1]
    /\ tpc' = [tpc EXCEPT ![t] = "t148"]
    /\ UNCHANGED <<obj, launched, callers, bound, line, return_code, waited,
                   events>>
    /\ UNCHANGED <<registry, window>>

\* lines 133, 147 on a child that writes up to MaxLines lines
ReadFails(t) == ReadFailsOf(t, MaxLines)

\* lines 134-136: if self._stop_requested: break (the line in hand is dropped)
ReadCheckStop(t) ==
    /\ tpc[t] = "t134"
    /\ tpc' = [tpc EXCEPT ![t] = IF stop_requested THEN "t140" ELSE "t137"]
    /\ line' = [line EXCEPT ![t] = IF stop_requested THEN 0 ELSE @]
    /\ UNCHANGED <<obj, os, callers, bound, return_code, waited, events>>
    /\ UNCHANGED <<registry, window>>

\* line 137: emit the line
ReadEmitLine(t) ==
    /\ tpc[t] = "t137"
    /\ Emit(Ev("line", bound[t], line[t], Reader(t)))
    /\ line' = [line EXCEPT ![t] = 0]
    /\ tpc' = [tpc EXCEPT ![t] = "t133"]
    /\ UNCHANGED <<obj, os, callers, bound, return_code, waited>>
    /\ UNCHANGED <<registry, window>>

\* line 140: return_code = self._process.wait() returns once the process
\* that self._process names now has exited
ReadWait(t) ==
    /\ tpc[t] = "t140"
    /\ ~Alive(process)
    /\ return_code' = [return_code EXCEPT ![t] = proc[process].rc]
    /\ waited' = [waited EXCEPT ![t] = process]
    /\ tpc' = [tpc EXCEPT ![t] = "t141"]
    /\ UNCHANGED <<obj, os, callers, bound, line, events>>
    /\ UNCHANGED <<registry, window>>

\* line 141: if not self._stop_requested (otherwise the thread ends)
ReadCheckRequested(t) ==
    /\ tpc[t] = "t141"
    /\ IF stop_requested
       THEN ThreadEnds(t)
       ELSE /\ tpc' = [tpc EXCEPT ![t] = "t142"]
            /\ UNCHANGED <<bound, line, return_code, waited>>
    /\ UNCHANGED <<obj, os, callers, events>>
    /\ UNCHANGED <<registry, window>>

\* line 142: self.state = ProcessState.STOPPED
ReadSetStopped(t) == ReaderSetTest(t, "t142", STOPPED, "t143")

ReadSetStoppedAssign(t) == ReaderSetAssign(t, "t142", STOPPED)

ReadSetStoppedEmit(t) == ReaderSetEmit(t, "t142", STOPPED, "t143")

\* line 143: self.finished.emit(return_code)
ReadEmitFinished(t) ==
    /\ tpc[t] = "t143"
    /\ Emit(Ev("finished", waited[t], return_code[t], Reader(t)))
    /\ tpc' = [tpc EXCEPT ![t] = "t144"]
    /\ UNCHANGED <<obj, os, callers, bound, line, return_code, waited>>
    /\ UNCHANGED <<registry, window>>

\* lines 144-146: emit "Finished with code <return_code>"; the thread ends
ReadEmitFinishedDiag(t) ==
    /\ tpc[t] = "t144"
    /\ Emit(Ev("finished_diag", waited[t], return_code[t], Reader(t)))
    /\ ThreadEnds(t)
    /\ UNCHANGED <<obj, os, callers>>
    /\ UNCHANGED <<registry, window>>

\* line 148: self.state = ProcessState.ERROR
ReadSetError(t) == ReaderSetTest(t, "t148", ERROR, "t149")

ReadSetErrorAssign(t) == ReaderSetAssign(t, "t148", ERROR)

ReadSetErrorEmit(t) == ReaderSetEmit(t, "t148", ERROR, "t149")

\* The except branch of _read_output as it would be if it reported the exit
\* as well: line 149 followed by the finished signal with the code at hand.
ReadEmitErrorAndFinished(t) ==
    /\ tpc[t] = "t149"
    /\ events' = events \o << Ev("output_error", bound[t], 0, Reader(t)),
                              Ev("finished", bound[t], return_code[t],
                                 Reader(t)) >>
    /\ ThreadEnds(t)
    /\ UNCHANGED <<obj, os, callers>>
    /\ UNCHANGED <<registry, window>>

\* line 149: emit "Output error: <e>"; the thread ends
ReadEmitError(t) ==
    /\ tpc[t] = "t149"
    /\ Emit(Ev("output_error", bound[t], 0, Reader(t)))
    /\ ThreadEnds(t)
    /\ UNCHANGED <<obj, os, callers>>
    /\ UNCHANGED <<registry, window>>

\* ------------------------------------------------------------------- Next
\* What the children do on their own.
ChildStep == \E p \in Pids : ChildExit(p) \/ ChildTerminated(p)

\* One step of start() in caller c.
StartStep(c) ==
    \/ CallStart(c) \/ StartCheck(c) \/ StartAlreadyRunning(c)
    \/ StartResetFlag(c) \/ StartPopen(c) \/ StartPopenFails(c)
    \/ StartSetRunning(c) \/ StartSetRunningAssign(c)
    \/ StartSetRunningEmit(c) \/ StartEmitStarted(c) \/ StartThread(c)
    \/ StartSetError(c) \/ StartSetErrorAssign(c) \/ StartSetErrorEmit(c)
    \/ StartEmitError(c)

\* One step of stop() in caller c, after the call.
StopBody(c) ==
    \/ StopSetFlag(c) \/ StopCheck(c)
    \/ StopEmitStopping(c) \/ StopTerminate(c) \/ StopTerminateFails(c)
    \/ StopWaitReturns(c) \/ StopWaitTimeout(c) \/ StopKill(c)
    \/ StopWaitKilled(c) \/ StopEmitError(c) \/ StopSetStopped(c)
    \/ StopSetStoppedAssign(c) \/ StopSetStoppedEmit(c)
    \/ StopEmitStopped(c)

\* One step of a capture thread.
ReadStep ==
    \E t \in Pids :
        \/ ReadBegin(t) \/ ReadLine(t) \/ ReadEof(t) \/ ReadFails(t)
        \/ ReadCheckStop(t) \/ ReadEmitLine(t) \/ ReadWait(t)
        \/ ReadCheckRequested(t) \/ ReadSetStopped(t)
        \/ ReadSetStoppedAssign(t) \/ ReadSetStoppedEmit(t)
        \/ ReadEmitFinished(t) \/ ReadEmitFinishedDiag(t)
        \/ ReadSetError(t) \/ ReadSetErrorAssign(t) \/ ReadSetErrorEmit(t)
        \/ ReadEmitError(t)

\* The API is called from one thread (the GUI thread), one call at a time;
\* the capture threads and the children run beside it.
Next ==
    \/ ChildStep
    \/ StartStep(MainCaller)
    \/ CallStop(MainCaller) \/ StopBody(MainCaller)
    \/ ReadStep

Spec == Init /\ [][Next]_vars

\* The caller is inside stop().
InStop(c) ==
    pc[c] \in {"p103", "p104", "p105", "p107", "p110", "p112", "p113", "p115",
               "p117", "p117w", "p117e", "p118"}

\* The same, with a second thread whose stop() calls begin while a stop()
\* of the first thread is in progress: two concurrent stop() calls.
NextConcurrent ==
    \/ Next
    \/ InStop(MainCaller) /\ CallStop(SecondCaller)
    \/ StopBody(SecondCaller)

SpecConcurrent == Init /\ [][NextConcurrent]_vars

\* The same instance with children that write up to LongLines lines and
\* LongCalls calls in all: the setting in which the order of the delivered
\* lines is studied.
NextLines ==
    \/ \E p \in Pids : ChildExitOf(p, LongLines) \/ ChildTerminatedOf(p, LongLines)
    \/ CallStartOf(MainCaller, LongCalls)
    \/ StartCheck(MainCaller) \/ StartAlreadyRunning(MainCaller)
    \/ StartResetFlag(MainCaller) \/ StartPopen(MainCaller)
    \/ StartPopenFails(MainCaller)
    \/ StartSetRunning(MainCaller) \/ StartSetRunningAssign(MainCaller)
    \/ StartSetRunningEmit(MainCaller) \/ StartEmitStarted(MainCaller)
    \/ StartThread(MainCaller)
    \/ StartSetError(MainCaller) \/ StartSetErrorAssign(MainCaller)
    \/ StartSetErrorEmit(MainCaller) \/ StartEmitError(MainCaller)
    \/ CallStopOf(MainCaller, LongCalls)
    \/ StopSetFlag(MainCaller) \/ StopCheck(MainCaller)
    \/ StopEmitStopping(MainCaller) \/ StopTerminate(MainCaller)
    \/ StopTerminateFails(MainCaller)
    \/ StopWaitReturns(MainCaller) \/ StopWaitTimeout(MainCaller)
    \/ StopKillOf(MainCaller, LongLines)
    \/ StopWaitKilled(MainCaller) \/ StopEmitError(MainCaller)
    \/ StopSetStopped(MainCaller) \/ StopSetStoppedAssign(MainCaller)
    \/ StopSetStoppedEmit(MainCaller) \/ StopEmitStopped(MainCaller)
    \/ \E t \in Pids :
          \/ ReadBegin(t) \/ ReadLineOf(t, LongLines) \/ ReadEof(t)
          \/ ReadFailsOf(t, LongLines)
          \/ ReadCheckStop(t) \/ ReadEmitLine(t) \/ ReadWait(t)
          \/ ReadCheckRequested(t) \/ ReadSetStopped(t)
          \/ ReadSetStoppedAssign(t) \/ ReadSetStoppedEmit(t)
          \/ ReadEmitFinished(t) \/ ReadEmitFinishedDiag(t)
          \/ ReadSetError(t) \/ ReadSetErrorAssign(t) \/ ReadSetErrorEmit(t)
          \/ ReadEmitError(t)

SpecLines == Init /\ [][NextLines]_vars

\* ============================================================ properties
\* Reading the event log.
Count(k, run) ==
    Cardinality({i \in DOMAIN events : events[i].k = k /\ events[i].run = run})

CountBy(k, by) ==
    Cardinality({i \in DOMAIN events : events[i].k = k /\ events[i].by = by})

\* The capture thread of run p is running.
CaptureActive(p) == p # NoProc /\ tpc[p] \notin {"none", "done"}

\* start() has launched the child and has not returned yet: the instant
\* in which it moves the instance to Running (lines 84-95).
Launching(c) == pc[c] \in {"s84", "s84w", "s84e", "s85", "s90"}

\* No call of the API is in progress.
NoCall == \A c \in Callers : pc[c] = "idle"

\* Run p is over: its child has exited, its capture thread has ended, and
\* no call is in progress.
RunOver(p) == proc[p].st = "dead" /\ tpc[p] = "done" /\ NoCall

\* The capture thread of run p ended in the except branch (lines 147-149).
EndedInError(p) == CountBy("output_error", Reader(p)) > 0

\* stop() executed its transition (line 117, then line 118) for run p.
StopTransitions(p) == Count("stopped", p)

\* The capture thread of run p executed its own transition (lines 142-146).
CaptureTransitions(p) == CountBy("finished_diag", Reader(p))

\* C1: for every run that is over and did not end in Error, exactly one of
\* the two paths (stop()'s transition, the capture thread's transition) has
\* performed the final change to Stopped: never both, never neither.
C1_ExactlyOnePath ==
    \A p \in Pids :
        (RunOver(p) /\ ~EndedInError(p))
            => StopTransitions(p) + CaptureTransitions(p) = 1

\* C2: whenever state is Running (outside the instant in which start() is
\* moving the instance to Running), the instance holds a live OS process
\* and the capture thread of that process is active.
C2_RunningIsLive ==
    (state = RUNNING /\ \A c \in Callers : ~Launching(c))
        => (is_running /\ CaptureActive(process))

\* C3: whenever state is not Running (outside the instant in which start()
\* is moving the instance to Running), is_running() is false.
C3_NotRunningNotLive ==
    (state # RUNNING /\ \A c \in Callers : ~Launching(c)) => ~is_running

\* C4: when a stop() that found a live process returns (line 118), that
\* process has exited.
C4_StopReturnsDead ==
    [][\A c \in Callers :
          (pc[c] = "p118" /\ pc'[c] = "idle")
              => proc'[target[c]].st # "alive"]_vars

\* Both callers' stop() found run p alive (each emitted "Stopping..." for it).
ConcurrentStops(p) ==
    /\ \E i \in DOMAIN events :
          events[i] = Ev("stopping", p, 0, MainCaller)
    /\ \E j \in DOMAIN events :
          events[j] = Ev("stopping", p, 0, SecondCaller)

\* C5: once two concurrent stop() calls on the same running instance have
\* both returned (neither having failed to terminate the process), exactly
\* one "Stopped" diagnostic has been emitted for the run and its process is
\* not alive.
C5_ConcurrentStopsOnce ==
    \A p \in Pids :
        (ConcurrentStops(p) /\ NoCall /\ Count("error_stopping", p) = 0)
            => (Count("stopped", p) = 1 /\ proc[p].st # "alive")

\* Event e is an output line of run p, emitted by the capture thread of p.
IsLine(e, p) == e.k = "line" /\ e.run = p /\ e.by = Reader(p)

\* Event e is a terminal diagnostic of run p: "Stopped" of a stop() that
\* found p alive, or "Finished with code N" / "Output error" of p's thread.
IsTerminal(e, p) ==
    \/ e.k = "stopped" /\ e.run = p
    \/ e.k \in {"finished_diag", "output_error"} /\ e.by = Reader(p)

\* C6: within one run, "Started" precedes every output line, and every
\* output line precedes the run's terminal diagnostic.
C6_RunEventOrder ==
    \A p \in Pids : \A i, j \in DOMAIN events :
        i < j => /\ ~(IsLine(events[i], p) /\ events[j].k = "started"
                                           /\ events[j].run = p)
                 /\ ~(IsTerminal(events[i], p) /\ IsLine(events[j], p))

\* Every line that child p wrote has been emitted, and before position n
\* of the log.
AllLinesBefore(p, n) ==
    \A l \in 1..proc[p].out :
        \E i \in 1..(n - 1) : IsLine(events[i], p) /\ events[i].n = l

\* C7: if stop() was never called, run p is over, its child exited by
\* itself and reading its output did not fail, then state has left Running,
\* the exit-code signal and the "Finished with code N" diagnostic have each
\* been emitted exactly once for p, after every line that p wrote.
C7_SelfExitFinishedOnce ==
    \A p \in Pids :
        (/\ calls.stop = 0
         /\ RunOver(p)
         /\ proc[p].rc = ExitOwn
         /\ ~EndedInError(p))
            => /\ Count("finished", p) = 1
               /\ Count("finished_diag", p) = 1
               /\ \A i \in DOMAIN events :
                     (events[i].k = "finished_diag" /\ events[i].run = p)
                         => AllLinesBefore(p, i)

\* Nothing is left to run: no call in progress, no capture thread active,
\* no child alive.
Quiescent ==
    /\ NoCall
    /\ \A p \in Pids : ~CaptureActive(p) /\ proc[p].st # "alive"

\* C8: every run ends in a terminal state: when every child has exited and
\* every call and capture thread has finished, state is Stopped or Error.
C8_RunsEndTerminal == Quiescent => state \in {STOPPED, ERROR}

\* C9: a start() that finds the previous process alive goes to line 70,
\* and lines 69-71 change nothing of the instance, launch nothing, start no
\* thread, emit the "already running" diagnostic only, and return False.
C9_RejectedStartNoEffect ==
    [][\A c \in Callers :
          /\ (pc[c] = "s69" /\ pc'[c] # "s69")
                => /\ is_running => pc'[c] = "s70"
                   /\ pc'[c] = "s70" => UNCHANGED <<obj, os, threads, events>>
          /\ (pc[c] = "s70" /\ pc'[c] # "s70")
                => /\ pc'[c] = "idle" /\ ret'[c] = "False"
                   /\ UNCHANGED <<obj, os, threads>>
                   /\ events' = Append(events, Ev("already_running", 0, 0, c))
      ]_vars

\* C9 witness: a start() has just been rejected with the process alive.
C9_Witness ==
    /\ pc[MainCaller] = "idle" /\ ret[MainCaller] = "False"
    /\ is_running
    /\ Len(events) > 0 /\ events[Len(events)].k = "already_running"

\* C10: line 69 rejects a start() whenever state is Running and accepts it
\* whenever state is Stopped.
C10_StartDecidedByState ==
    [][\A c \in Callers :
          (pc[c] = "s69" /\ pc'[c] # "s69")
              => /\ state = RUNNING => pc'[c] = "s70"
                 /\ state = STOPPED => pc'[c] = "s74"]_vars

InLaunchFailure(c) == pc[c] \in {"s97", "s97w", "s97e", "s98"}

\* The last launch attempted so far failed: an "Error starting" diagnostic
\* with no "Started" diagnostic after it.
LaunchFailedLast ==
    \E i \in DOMAIN events :
        /\ events[i].k = "error_starting"
        /\ \A j \in DOMAIN events : j > i => events[j].k # "started"

\* C12: when the launch fails, start() sets state to Error (with a
\* state-change event if the value changed), emits the "Error starting"
\* diagnostic and returns False, and on that path launches nothing and
\* starts no capture thread; a start() called after the failed launch is
\* accepted at line 69, and once its launch succeeds line 84 sets state
\* to Running.
C12_LaunchFailure ==
    [][\A c \in Callers :
          /\ (pc[c] = "s75" /\ pc'[c] = "s97")
                => UNCHANGED <<obj, os, threads, events, ret>>
          /\ (InLaunchFailure(c) /\ pc'[c] # pc[c])
                => UNCHANGED <<stop_requested, process, output_thread, os,
                               threads>>
          /\ (pc[c] = "s97" /\ pc'[c] # "s97")
                => /\ pc'[c] = IF state = ERROR THEN "s98" ELSE "s97w"
                   /\ UNCHANGED <<state, events>>
          /\ (pc[c] = "s97w" /\ pc'[c] # "s97w")
                => pc'[c] = "s97e" /\ state' = ERROR /\ UNCHANGED events
          /\ (pc[c] = "s97e" /\ pc'[c] # "s97e")
                => /\ pc'[c] = "s98" /\ UNCHANGED state
                   /\ events' = Append(events, Ev(StateKind(ERROR), 0, 0, c))
          /\ (pc[c] = "s98" /\ pc'[c] # "s98")
                => /\ pc'[c] = "idle" /\ ret'[c] = "False"
                   /\ UNCHANGED state
                   /\ events' = Append(events, Ev("error_starting", 0, 0, c))
          /\ (pc[c] = "s69" /\ pc'[c] # "s69" /\ LaunchFailedLast)
                => pc'[c] = "s74"
          /\ (pc[c] = "s84" /\ pc'[c] = "s85") => state = RUNNING
          /\ (pc[c] = "s84w" /\ pc'[c] # "s84w") => state' = RUNNING
      ]_vars

\* C12 witness: a launch failed, the next start() was accepted and the
\* instance is Running with its child alive.
C12_Witness ==
    /\ \E i, j \in DOMAIN events :
          /\ i < j
          /\ events[i].k = "error_starting"
          /\ events[j].k = "started"
    /\ pc[MainCaller] = "idle" /\ ret[MainCaller] = "True"
    /\ state = RUNNING
    /\ is_running

\* C13: after a successful launch start() sets state to Running (with a
\* state-change event exactly if the value changed), then emits "Started",
\* then starts the capture thread of the new process, and returns True, in
\* that order; a capture thread is started by line 90-93 only, once per
\* launched process.
C13_SuccessfulLaunch ==
    [][/\ \A c \in Callers :
            /\ (pc[c] = "s75" /\ pc'[c] = "s84")
                  => /\ launched' = launched + 1
                     /\ process' = launched' /\ target'[c] = launched'
                     /\ proc'[launched'].st = "alive"
                     /\ tpc[launched'] = "none"
                     /\ Count("started", launched') = 0
            /\ (pc[c] = "s84" /\ pc'[c] # "s84")
                  => /\ pc'[c] = IF state = RUNNING THEN "s85" ELSE "s84w"
                     /\ UNCHANGED <<state, events, tpc>>
            /\ (pc[c] = "s84w" /\ pc'[c] # "s84w")
                  => /\ pc'[c] = "s84e" /\ state' = RUNNING
                     /\ UNCHANGED <<events, tpc>>
            /\ (pc[c] = "s84e" /\ pc'[c] # "s84e")
                  => /\ pc'[c] = "s85" /\ UNCHANGED <<state, tpc>>
                     /\ events'
                          = Append(events, Ev(StateKind(RUNNING), 0, 0, c))
            /\ (pc[c] = "s85" /\ pc'[c] # "s85")
                  => /\ pc'[c] = "s90" /\ UNCHANGED <<obj, os, threads>>
                     /\ tpc[target[c]] = "none"
                     /\ events' = Append(events, Ev("started", target[c], 0, c))
            /\ (pc[c] = "s90" /\ pc'[c] # "s90")
                  => /\ pc'[c] = "idle" /\ ret'[c] = "True"
                     /\ Count("started", target[c]) = 1
                     /\ tpc[target[c]] = "none"
                     /\ tpc' = [tpc EXCEPT ![target[c]] = "t129"]
                     /\ output_thread' = target[c]
                     /\ UNCHANGED <<state, stop_requested, process, os,
                                    events>>
       /\ \A t \in Pids :
            /\ (tpc[t] = "none" /\ tpc'[t] # "none")
                  => \E c \in Callers :
                        pc[c] = "s90" /\ pc'[c] = "idle" /\ target[c] = t
            /\ tpc[t] # "none" => tpc'[t] # "none"
      ]_vars

\* C13 witness: start() has returned True after a launch that changed the
\* state: the log ends with the state change followed by "Started", and
\* the capture thread of the new process has been started.
C13_Witness ==
    /\ pc[MainCaller] = "idle" /\ ret[MainCaller] = "True"
    /\ Len(events) >= 2
    /\ events[Len(events) - 1].k = StateKind(RUNNING)
    /\ events[Len(events)].k = "started"
    /\ events[Len(events)].run = process
    /\ tpc[process] = "t129"
    /\ state = RUNNING

\* C14: a stop() that found a live process runs its protocol in order:
\* "Stopping..." is emitted, then termination is requested, then the call
\* waits for the exit; kill is sent only from a wait that expired with the
\* process still alive, hence never without the termination request of the
\* same call before it; and the finally block with its "Stopped" diagnostic
\* is entered only from a completed wait (line 110 or line 113).
C14_StopProtocolOrder ==
    [][\A c \in Callers :
          /\ (pc[c] = "p105" /\ pc'[c] # "p105")
                => /\ pc'[c] = "p107"
                   /\ events' = Append(events, Ev("stopping", target[c], 0, c))
          /\ (pc[c] = "p107" /\ pc'[c] # "p107")
                => pc'[c] \in {"p110", "p115"}
          /\ (pc[c] = "p110" /\ pc'[c] # "p110")
                => \/ pc'[c] = "p117" /\ ~Alive(process)
                   \/ pc'[c] = "p112" /\ Alive(process)
          /\ pc'[c] = "p112" => pc[c] \in {"p110", "p112"}
          /\ (pc[c] = "p112" /\ pc'[c] # "p112")
                => pc'[c] = "p113" /\ ~Alive(process)'
          /\ (pc[c] = "p113" /\ pc'[c] # "p113")
                => pc'[c] = "p117" /\ ~Alive(process)
          /\ pc'[c] = "p117" => pc[c] \in {"p110", "p113", "p117"}
          /\ (pc[c] = "p118" /\ pc'[c] # "p118")
                => events' = Append(events, Ev("stopped", target[c], 0, c))
      ]_vars

\* C15: a stop() that had to kill its child (the child ignored the
\* termination request until the wait of line 110 expired) returns with
\* the child dead and state Stopped.
C15_KilledStopReturnsStopped ==
    [][\A c \in Callers :
          (/\ pc[c] = "p118" /\ pc'[c] = "idle"
           /\ proc[target[c]].rc = KillCode)
              => /\ ~Alive(target[c])
                 /\ ~is_running
                 /\ state' = STOPPED]_vars

\* A stop() found run p alive, terminated it without failure and returned.
StoppedByStop(p) ==
    /\ Count("stopping", p) > 0
    /\ Count("error_stopping", p) = 0
    /\ \A c \in Callers : target[c] # p

\* C16: for a run shut down by stop(), the transition to Stopped with its
\* diagnostic is performed exactly once over all code paths: stop() has
\* emitted one "Stopped" for the run and the capture thread of the run
\* never performs its own transition (lines 142-146).
C16_StopTransitionOnce ==
    \A p \in Pids :
        StoppedByStop(p)
            => /\ StopTransitions(p) = 1
               /\ CaptureTransitions(p) = 0

\* C17: a stop() that finds no live process at line 104 returns None having
\* emitted nothing and changed neither the state nor the handle: its only
\* effect is stop_requested = True (line 103), and nothing at all when the
\* flag was already set, so a second stop() in a row changes nothing; an
\* instance that was never started stays Stopped with no handle and an
\* empty event log whatever the number of stop() calls.
C17_IdleStopNoEffect ==
    /\ [](calls.start = 0
            => /\ state = STOPPED /\ process = NoProc /\ launched = 0
               /\ events = << >>)
    /\ [][\A c \in Callers :
            /\ (pc[c] = "p103" /\ pc'[c] # "p103")
                  => /\ pc'[c] = "p104"
                     /\ stop_requested' = TRUE
                     /\ UNCHANGED <<state, process, output_thread, os,
                                    threads, events>>
            /\ (pc[c] = "p104" /\ pc'[c] # "p104" /\ ~is_running)
                  => /\ pc'[c] = "idle" /\ ret'[c] = "None"
                     /\ UNCHANGED <<obj, os, threads, events>>
       ]_vars

\* C17 witness: two stop() calls in a row on an instance that was never
\* started have returned.
C17_Witness ==
    /\ calls.start = 0 /\ calls.stop = 2
    /\ pc[MainCaller] = "idle" /\ ret[MainCaller] = "None"
    /\ stop_requested
    /\ state = STOPPED /\ process = NoProc

\* The values carried by the state_changed events emitted so far, in order.
StateEvents ==
    SelectSeq(events, LAMBDA e : e.k \in {StateKind(v) : v \in ProcessState})

\* No thread is inside the state setter (between lines 49 and 51).
NoSetterInFlight ==
    /\ \A c \in Callers : pc[c] \notin {"s84w", "s84e", "s97w", "s97e",
                                        "p117w", "p117e"}
    /\ \A t \in Pids : tpc[t] \notin {"t142w", "t142e", "t148w", "t148e"}

\* Event number i reflects the end of run p: it comes after the "Started"
\* of p and is a state_changed to Stopped or Error or a terminal diagnostic
\* of p.
ReflectsEnd(i, p) ==
    /\ \E j \in 1 .. (i - 1) : events[j].k = "started" /\ events[j].run = p
    /\ \/ events[i].k \in {StateKind(STOPPED), StateKind(ERROR)}
       \/ IsTerminal(events[i], p)

\* C18: every change of state is observable. Outside the setter, the
\* state_changed events are the successive distinct values of state (no
\* value twice in a row, the first one differing from the initial Stopped)
\* and the last one is the current state; every run that has started is
\* reflected by an event (the change to Running or its "Started"), and
\* every run that is over by an event after that (a change to Stopped or
\* Error, or a terminal diagnostic of the run).
C18_StateChangesObservable ==
    NoSetterInFlight
        => /\ IF StateEvents = << >> THEN state = STOPPED
              ELSE /\ StateEvents[Len(StateEvents)].k = StateKind(state)
                   /\ StateEvents[1].k # StateKind(STOPPED)
           /\ \A i \in 1 .. (Len(StateEvents) - 1) :
                 StateEvents[i].k # StateEvents[i + 1].k
           /\ \A p \in Pids :
                 /\ tpc[p] # "none" => Count("started", p) = 1
                 /\ RunOver(p) => \E i \in DOMAIN events : ReflectsEnd(i, p)

\* Run p was shut down by stop(): its child died of the termination request
\* or of the kill.
ShutDownByStop(p) ==
    proc[p].st = "dead" /\ proc[p].rc \in {TermCode, KillCode}

\* C19: the finished signal and the "Finished with code N" diagnostic are
\* emitted only for a child that exited by itself: for a run shut down by
\* stop() neither is ever emitted, so no run has both a "Stopped" and a
\* "Finished" diagnostic.
C19_FinishedOnlySelfExit ==
    \A p \in Pids :
        /\ ShutDownByStop(p)
              => Count("finished", p) = 0 /\ Count("finished_diag", p) = 0
        /\ ~(Count("stopped", p) > 0 /\ Count("finished_diag", p) > 0)

\* C20: when the wait of line 110 expires and stop() kills the child, the
\* escalation is emitted as a diagnostic of its own: once the kill has
\* been sent (line 113 is next), the log holds an event of that call,
\* later than its "Stopping..." and other than "Stopping..." and "Stopped".
C20_EscalationLogged ==
    \A c \in Callers :
        pc[c] = "p113"
            => \E i \in DOMAIN events :
                  /\ events[i].by = c
                  /\ events[i].k \notin {"stopping", "stopped"}
                  /\ \A j \in DOMAIN events :
                        (events[j].by = c /\ events[j].k = "stopping")
                            => j < i

\* The capture thread is in the except branch of _read_output (147-149).
InReadFailure(t) == tpc[t] \in {"t148", "t148w", "t148e", "t149"}

\* C21: when readline() raises in the capture thread, the thread stores
\* Error (with a state-change event if the value differed), emits the
\* "Output error" diagnostic and ends; on that path it waits on nothing,
\* emits no finished signal and no "Finished" diagnostic, and a thread that
\* ended this way has emitted neither.
C21_ReadFailure ==
    /\ [](\A t \in Pids :
            (InReadFailure(t) \/ EndedInError(t))
                => /\ CountBy("finished", Reader(t)) = 0
                   /\ CountBy("finished_diag", Reader(t)) = 0)
    /\ [][\A t \in Pids :
            /\ (tpc[t] = "t133" /\ tpc'[t] = "t148")
                  => UNCHANGED <<obj, callers, events>>
            /\ (InReadFailure(t) /\ tpc'[t] # tpc[t])
                  => UNCHANGED <<stop_requested, process, output_thread, os,
                                 callers>>
            /\ (tpc[t] = "t148" /\ tpc'[t] # "t148")
                  => /\ tpc'[t] = IF state = ERROR THEN "t149" ELSE "t148w"
                     /\ UNCHANGED <<state, events>>
            /\ (tpc[t] = "t148w" /\ tpc'[t] # "t148w")
                  => tpc'[t] = "t148e" /\ state' = ERROR /\ UNCHANGED events
            /\ (tpc[t] = "t148e" /\ tpc'[t] # "t148e")
                  => /\ tpc'[t] = "t149" /\ UNCHANGED state
                     /\ events' = Append(events,
                                         Ev(StateKind(ERROR), 0, 0, Reader(t)))
            /\ (tpc[t] = "t149" /\ tpc'[t] # "t149")
                  => /\ tpc'[t] = "done" /\ UNCHANGED state
                     /\ events' = Append(events,
                                     Ev("output_error", bound[t], 0, Reader(t)))
       ]_vars

\* C21 witness: a capture thread has ended in the except branch, having
\* changed the state to Error and emitted the diagnostic last.
C21_Witness ==
    \E t \in Pids :
        /\ tpc[t] = "done"
        /\ state = ERROR
        /\ Len(events) >= 2
        /\ events[Len(events)] = Ev("output_error", t, 0, Reader(t))
        /\ events[Len(events) - 1] = Ev(StateKind(ERROR), 0, 0, Reader(t))

\* Nothing of the supervisor is left to act: no call in progress and no
\* capture thread active.
SupervisorIdle ==
    NoCall /\ \A t \in Pids : ~CaptureActive(t)

\* C22: after a read failure the supervisor still reaps the child: once
\* the capture thread that failed has ended and the supervisor has nothing
\* left to do, an instance in state Error holds no child that is alive and
\* was never sent a termination request.
C22_FailedRunReaped ==
    (SupervisorIdle /\ state = ERROR /\ process # NoProc
        /\ EndedInError(process))
        => (~Alive(process) \/ proc[process].termed)

\* C23: no failure leaves start() or stop() as an exception. A failed
\* launch (line 75) continues in the except branch and the call returns
\* False after the "Error starting" diagnostic; a failed terminate()
\* (line 107) continues with the "Error stopping" diagnostic and the
\* finally block; an expired wait (line 110) continues with kill and the
\* wait of line 113; stop() returns None after storing Stopped; every call
\* that returns returns True, False or None.
C23_NoExceptionEscapes ==
    /\ [](\A c \in Callers : ret[c] \in {"-", "True", "False", "None"})
    /\ [][\A c \in Callers :
            /\ (pc[c] = "s75" /\ pc'[c] # "s75") => pc'[c] \in {"s84", "s97"}
            /\ (InLaunchFailure(c) /\ pc'[c] # pc[c])
                  => \/ InLaunchFailure(c)'
                     \/ /\ pc'[c] = "idle" /\ ret'[c] = "False"
                        /\ events'[Len(events')].k = "error_starting"
            /\ (pc[c] = "p107" /\ pc'[c] # "p107")
                  => pc'[c] \in {"p110", "p115"}
            /\ (pc[c] = "p110" /\ pc'[c] # "p110")
                  => pc'[c] \in {"p112", "p117"}
            /\ (pc[c] = "p115" /\ pc'[c] # "p115")
                  => /\ pc'[c] = "p117"
                     /\ events'[Len(events')].k = "error_stopping"
            /\ (pc[c] \in {"p112", "p113", "p117", "p117w", "p117e", "p118"}
                   /\ pc'[c] # pc[c])
                  => \/ pc'[c] \in {"p113", "p117", "p117w", "p117e", "p118"}
                     \/ /\ pc[c] = "p118" /\ pc'[c] = "idle"
                        /\ ret'[c] = "None"
                        /\ events'[Len(events')].k = "stopped"
            /\ (pc[c] # "idle" /\ pc'[c] = "idle")
                  => ret'[c] \in {"True", "False", "None"}
       ]_vars

\* C23 witness: a start() whose launch failed and a stop() whose
\* terminate() failed have both returned.
C23_Witness ==
    /\ NoCall
    /\ ret[MainCaller] = "None"
    /\ \E i, j \in DOMAIN events :
          /\ i < j
          /\ events[i].k = "error_starting"
          /\ events[j].k = "error_stopping"
    /\ events[Len(events)].k = "stopped"

\* ============================================================== registry
\* ProcessManager and the instances it tracks. The registry is owned by
\* the GUI thread, which issues one call at a time (create_process,
\* get_process, stop_all, get_running_processes, and start()/stop() on the
\* instances it was handed); the children and the capture threads of every
\* instance run beside it. An instance is stepped here line by line as
\* above, with the setter and the emits of a line folded into the line,
\* and its signals counted instead of logged.

\* The objects constructed so far, among the refs there can be.
RefIds == 1 .. Cardinality(Names)
Refs == DOMAIN heap

\* self._processes.get(name): the ref stored under name, or None
Lookup(name) ==
    IF \E i \in DOMAIN processes : processes[i].name = name
    THEN (CHOOSE e \in {processes[i] : i \in DOMAIN processes} :
              e.name = name).ref
    ELSE NoRef

\* The refs the registry tracks.
Tracked == {processes[i].ref : i \in DOMAIN processes}

\* ManagedProcess.is_running of object r
Live(r) == heap[r].handle = "alive"

\* The state setter on object r, followed by the diagnostic that the same
\* lines emit after it.
Stored(r, v, diagnostic) ==
    [heap[r] EXCEPT !.state = v, !.last = diagnostic]

\* The call in progress returns to the GUI thread.
Return(kind, ref, names) ==
    /\ rcall' = IdleCall
    /\ rret' = [call |-> rcall.op, arg |-> "-", kind |-> kind, ref |-> ref,
                names |-> names]

\* create_process(name) or get_process(name) returns to the GUI thread.
ReturnOf(call, name, kind, ref) ==
    /\ rcall' = IdleCall
    /\ rret' = [call |-> call, arg |-> name, kind |-> kind, ref |-> ref,
                names |-> << >>]

\* Variant of create_process without the test of line 173: a new instance is
\* constructed on every call and takes the place of the one registered.
CreateProcessAlwaysNew(name) ==
    /\ rcall = IdleCall
    /\ IF Lookup(name) = NoRef
       THEN /\ heap' = Append(heap, Fresh)
            /\ processes' = Append(processes,
                                   [name |-> name, ref |-> Len(heap) + 1])
            /\ ReturnOf("create", name, "instance", Len(heap) + 1)
       ELSE /\ heap' = [heap EXCEPT ![Lookup(name)] = Fresh]
            /\ UNCHANGED processes
            /\ ReturnOf("create", name, "instance", Lookup(name))
    /\ UNCHANGED <<result, snapshot, invoked, rcalls, single, window>>

\* lines 173-175: create_process(name)
CreateProcess(name) ==
    /\ rcall = IdleCall
    /\ IF Lookup(name) = NoRef
       THEN /\ heap' = Append(heap, Fresh)
            /\ processes' = Append(processes,
                                   [name |-> name, ref |-> Len(heap) + 1])
            /\ ReturnOf("create", name, "instance", Len(heap) + 1)
       ELSE /\ UNCHANGED <<heap, processes>>
            /\ ReturnOf("create", name, "instance", Lookup(name))
    /\ UNCHANGED <<result, snapshot, invoked, rcalls, single, window>>

\* Variant of get_process that registers the name when it is absent (as
\* dict.setdefault would) instead of returning None.
GetProcessCreates(name) ==
    /\ rcall = IdleCall
    /\ IF Lookup(name) = NoRef
       THEN /\ heap' = Append(heap, Fresh)
            /\ processes' = Append(processes,
                                   [name |-> name, ref |-> Len(heap) + 1])
            /\ ReturnOf("get", name, "instance", Len(heap) + 1)
       ELSE /\ UNCHANGED <<heap, processes>>
            /\ ReturnOf("get", name, "instance", Lookup(name))
    /\ UNCHANGED <<result, snapshot, invoked, rcalls, single, window>>

\* line 186: get_process(name)
GetProcess(name) ==
    /\ rcall = IdleCall
    /\ ReturnOf("get", name,
                IF Lookup(name) = NoRef THEN "None" ELSE "instance",
                Lookup(name))
    /\ UNCHANGED <<heap, processes, result, snapshot, invoked, rcalls, single, window>>

\* ------------------------------------------------ start() on an instance
\* The GUI thread calls start() on an instance it holds: line 69 is next.
CallStartOnOf(r, m) ==
    /\ r \in Refs
    /\ rcall = IdleCall
    /\ rcalls < m
    /\ rcall' = [op |-> "start", at |-> "s69", ref |-> r, k |-> 0]
    /\ rcalls' = rcalls + 1
    /\ rret' = NoReturn
    /\ UNCHANGED <<processes, heap, result, snapshot, invoked, single, window>>

\* The same as one of up to MaxRegCalls calls.
CallStartOn(r) == CallStartOnOf(r, MaxRegCalls)

\* lines 69-71: already running: emit the diagnostic, return False
InstStartCheck ==
    /\ rcall.op = "start" /\ rcall.at = "s69"
    /\ IF Live(rcall.ref)
       THEN /\ heap' = [heap EXCEPT ![rcall.ref].last = "already_running"]
            /\ Return("False", NoRef, << >>)
       ELSE /\ rcall' = [rcall EXCEPT !.at = "s74"]
            /\ UNCHANGED <<heap, rret>>
    /\ UNCHANGED <<processes, result, snapshot, invoked, rcalls, single, window>>

\* line 74: self._stop_requested = False
InstStartResetFlag ==
    /\ rcall.op = "start" /\ rcall.at = "s74"
    /\ heap' = [heap EXCEPT ![rcall.ref].stop_requested = FALSE]
    /\ rcall' = [rcall EXCEPT !.at = "s75"]
    /\ UNCHANGED <<processes, rret, result, snapshot, invoked, rcalls, single, window>>

\* lines 75-83: Popen succeeds
InstStartPopen ==
    /\ rcall.op = "start" /\ rcall.at = "s75"
    /\ heap[rcall.ref].runs < MaxRuns
    /\ heap' = [heap EXCEPT ![rcall.ref].handle = "alive",
                            ![rcall.ref].runs = @ + 1]
    /\ rcall' = [rcall EXCEPT !.at = "s84"]
    /\ UNCHANGED <<processes, rret, result, snapshot, invoked, rcalls, single, window>>

\* lines 75-83, 96: Popen raises
InstStartPopenFails ==
    /\ rcall.op = "start" /\ rcall.at = "s75"
    /\ rcall' = [rcall EXCEPT !.at = "s97"]
    /\ UNCHANGED <<processes, heap, rret, result, snapshot, invoked, rcalls,
                   single, window>>

\* lines 84-87: state = RUNNING; emit "Started"
InstStartSetRunning ==
    /\ rcall.op = "start" /\ rcall.at = "s84"
    /\ heap' = [heap EXCEPT ![rcall.ref] = Stored(rcall.ref, RUNNING, "started")]
    /\ rcall' = [rcall EXCEPT !.at = "s90"]
    /\ UNCHANGED <<processes, rret, result, snapshot, invoked, rcalls, single, window>>

\* lines 90-95: start the capture thread of the new run; return True
InstStartThread ==
    /\ rcall.op = "start" /\ rcall.at = "s90"
    /\ heap' = [heap EXCEPT
                  ![rcall.ref].thr[heap[rcall.ref].runs] = "t133"]
    /\ Return("True", NoRef, << >>)
    /\ UNCHANGED <<processes, result, snapshot, invoked, rcalls, single, window>>

\* lines 97-99: state = ERROR; emit "Error starting"; return False
InstStartSetError ==
    /\ rcall.op = "start" /\ rcall.at = "s97"
    /\ heap' = [heap EXCEPT ![rcall.ref] = Stored(rcall.ref, ERROR, "error_starting")]
    /\ Return("False", NoRef, << >>)
    /\ UNCHANGED <<processes, result, snapshot, invoked, rcalls, single, window>>

\* ------------------------------------------------- stop() on an instance
\* The GUI thread calls stop() on an instance it holds: line 103 is next.
CallStopOnOf(r, m) ==
    /\ r \in Refs
    /\ rcall = IdleCall
    /\ rcalls < m
    /\ rcall' = [op |-> "stop", at |-> "p103", ref |-> r, k |-> 0]
    /\ rcalls' = rcalls + 1
    /\ rret' = NoReturn
    /\ UNCHANGED <<processes, heap, result, snapshot, invoked, single, window>>

\* The same as one of up to MaxRegCalls calls.
CallStopOn(r) == CallStopOnOf(r, MaxRegCalls)

\* A stop() is in progress, called directly or by stop_all (line 192).
InStopAt(at) == rcall.op \in {"stop", "stop_all"} /\ rcall.at = at

\* stop() returns: to the GUI thread, or to the loop of stop_all
StopReturns ==
    IF rcall.op = "stop"
    THEN Return("None", NoRef, << >>)
    ELSE /\ rcall' = [rcall EXCEPT !.at = "a190", !.ref = NoRef, !.k = @ + 1]
         /\ UNCHANGED rret

\* Variant of line 103 in which the stop request is one flag shared by all
\* instances (a class attribute) instead of a field of the instance.
InstStopSetFlagShared ==
    /\ InStopAt("p103")
    /\ heap' = [r \in DOMAIN heap |-> [heap[r] EXCEPT !.stop_requested = TRUE]]
    /\ rcall' = [rcall EXCEPT !.at = "p104"]
    /\ UNCHANGED <<processes, rret, result, snapshot, invoked, rcalls, single, window>>

\* line 103: self._stop_requested = True
InstStopSetFlag ==
    /\ InStopAt("p103")
    /\ heap' = [heap EXCEPT ![rcall.ref].stop_requested = TRUE]
    /\ rcall' = [rcall EXCEPT !.at = "p104"]
    /\ UNCHANGED <<processes, rret, result, snapshot, invoked, rcalls, single, window>>

\* lines 104-105: no live process: return; otherwise emit "Stopping..."
InstStopCheck ==
    /\ InStopAt("p104")
    /\ IF Live(rcall.ref)
       THEN /\ heap' = [heap EXCEPT ![rcall.ref].last = "stopping"]
            /\ rcall' = [rcall EXCEPT !.at = "p107"]
            /\ UNCHANGED rret
       ELSE /\ StopReturns
            /\ UNCHANGED heap
    /\ UNCHANGED <<processes, result, snapshot, invoked, rcalls, single, window>>

\* Variant of line 107 for a process kind that is suspended before it is
\* terminated: the state is set to PAUSED while stop() waits.
InstStopTerminatePauses ==
    /\ InStopAt("p107")
    /\ heap' = [heap EXCEPT ![rcall.ref] = Stored(rcall.ref, PAUSED, "stopping")]
    /\ rcall' = [rcall EXCEPT !.at = "p110"]
    /\ UNCHANGED <<processes, rret, result, snapshot, invoked, rcalls, single, window>>

\* line 107: terminate(): SIGTERM is sent; the child exits on it
\* (InstChildExit) or ignores it
InstStopTerminate ==
    /\ InStopAt("p107")
    /\ rcall' = [rcall EXCEPT !.at = "p110"]
    /\ UNCHANGED <<processes, heap, rret, result, snapshot, invoked, rcalls,
                   single, window>>

\* Variant of the failed terminate() in which lines 114-118 are absent: the
\* exception leaves stop() and, inside stop_all(), ends the loop of line 190.
InstStopTerminateEscapes ==
    /\ InStopAt("p107")
    /\ Live(rcall.ref)
    /\ rcall' = IdleCall
    /\ rret' = [NoReturn EXCEPT !.call = rcall.op, !.kind = "raised"]
    /\ snapshot' = {}
    /\ invoked' = {}
    /\ UNCHANGED <<processes, heap, result, rcalls, single, window>>

\* lines 107, 114-115: terminate() raises; emit "Error stopping"
InstStopTerminateFails ==
    /\ InStopAt("p107")
    /\ Live(rcall.ref)
    /\ heap' = [heap EXCEPT ![rcall.ref].last = "error_stopping"]
    /\ rcall' = [rcall EXCEPT !.at = "p117"]
    /\ UNCHANGED <<processes, rret, result, snapshot, invoked, rcalls, single, window>>

\* line 110: wait(timeout=5) returns: the child has exited
InstStopWaitReturns ==
    /\ InStopAt("p110")
    /\ ~Live(rcall.ref)
    /\ rcall' = [rcall EXCEPT !.at = "p117"]
    /\ UNCHANGED <<processes, heap, rret, result, snapshot, invoked, rcalls,
                   single, window>>

\* lines 110-111: the wait expires with the child alive
InstStopWaitTimeout ==
    /\ InStopAt("p110")
    /\ Live(rcall.ref)
    /\ rcall' = [rcall EXCEPT !.at = "p112"]
    /\ UNCHANGED <<processes, heap, rret, result, snapshot, invoked, rcalls,
                   single, window>>

\* lines 112-113: kill(); wait(): the child is dead when the wait returns
InstStopKill ==
    /\ InStopAt("p112")
    /\ heap' = [heap EXCEPT ![rcall.ref].handle = "dead"]
    /\ rcall' = [rcall EXCEPT !.at = "p117"]
    /\ UNCHANGED <<processes, rret, result, snapshot, invoked, rcalls, single, window>>

\* Variant of lines 117-118 in which an instance that has been stopped is
\* also dropped from the registry.
InstStopSetStoppedForgets ==
    /\ InStopAt("p117")
    /\ heap' = [heap EXCEPT ![rcall.ref] = Stored(rcall.ref, STOPPED, "stopped")]
    /\ processes' = SelectSeq(processes, LAMBDA e : e.ref # rcall.ref)
    /\ StopReturns
    /\ UNCHANGED <<result, snapshot, invoked, rcalls, single, window>>

\* lines 117-118: state = STOPPED; emit "Stopped"; stop() returns
InstStopSetStopped ==
    /\ InStopAt("p117")
    /\ heap' = [heap EXCEPT ![rcall.ref] = Stored(rcall.ref, STOPPED, "stopped")]
    /\ StopReturns
    /\ UNCHANGED <<processes, result, snapshot, invoked, rcalls, single, window>>

\* ---------------------------------------------------------------- stop_all
\* The GUI thread calls stop_all(): the loop of line 190 is next.
BeginStopAllOf(m) ==
    /\ rcall = IdleCall
    /\ rcalls < m
    /\ rcall' = [op |-> "stop_all", at |-> "a190", ref |-> NoRef, k |-> 1]
    /\ snapshot' = {r \in Tracked : Live(r)}
    /\ invoked' = {}
    /\ rcalls' = rcalls + 1
    /\ rret' = NoReturn
    /\ UNCHANGED <<processes, heap, result, single>>

\* The same as one of up to MaxRegCalls calls.
BeginStopAll == BeginStopAllOf(MaxRegCalls)

\* stop_all() called by a module of the GUI, outside the window's handlers
CallStopAll == BeginStopAll /\ UNCHANGED window

\* line 190: the next value of self._processes.values(), or the end of
\* the loop (stop_all returns None)
StopAllNext ==
    /\ rcall.op = "stop_all" /\ rcall.at = "a190"
    /\ IF rcall.k > Len(processes)
       THEN /\ Return("None", NoRef, << >>)
            /\ snapshot' = {}
            /\ invoked' = {}
       ELSE /\ rcall' = [rcall EXCEPT !.at = "a191",
                                      !.ref = processes[rcall.k].ref]
            /\ UNCHANGED <<rret, snapshot, invoked>>
    /\ UNCHANGED <<processes, heap, result, rcalls, single, window>>

\* Variant of lines 191-192 without the test: stop() is called on every
\* tracked instance, running or not.
StopAllPollAlways ==
    /\ rcall.op = "stop_all" /\ rcall.at = "a191"
    /\ rcall' = [rcall EXCEPT !.at = "p103"]
    /\ invoked' = invoked \cup {rcall.ref}
    /\ UNCHANGED <<processes, heap, rret, result, snapshot, rcalls, single, window>>

\* lines 191-192: if process.is_running(): process.stop()
StopAllPoll ==
    /\ rcall.op = "stop_all" /\ rcall.at = "a191"
    /\ IF Live(rcall.ref)
       THEN /\ rcall' = [rcall EXCEPT !.at = "p103"]
            /\ invoked' = invoked \cup {rcall.ref}
       ELSE /\ rcall' = [rcall EXCEPT !.at = "a190", !.ref = NoRef,
                                      !.k = @ + 1]
            /\ UNCHANGED invoked
    /\ UNCHANGED <<processes, heap, rret, result, snapshot, rcalls, single, window>>

\* --------------------------------------------------- get_running_processes
\* The GUI thread calls get_running_processes(): the comprehension of
\* lines 200-204 starts with an empty list.
BeginGetRunning ==
    /\ rcall = IdleCall
    /\ rcall' = [op |-> "running", at |-> "g202", ref |-> NoRef, k |-> 1]
    /\ result' = << >>
    /\ snapshot' = {r \in Tracked : Live(r)}
    /\ rret' = NoReturn
    /\ UNCHANGED <<processes, heap, invoked, rcalls, single>>

\* get_running_processes() called outside the window's handlers
CallGetRunning == BeginGetRunning /\ UNCHANGED window

\* Variant of lines 200-204 that selects by the stored state (state ==
\* RUNNING) instead of polling the child with is_running().
GetRunningNextByState ==
    /\ rcall.op = "running" /\ rcall.at = "g202"
    /\ IF rcall.k > Len(processes)
       THEN /\ Return("list", NoRef, result)
            /\ result' = << >>
            /\ snapshot' = {}
       ELSE /\ rcall' = [rcall EXCEPT !.k = @ + 1]
            /\ result' = IF heap[processes[rcall.k].ref].state = RUNNING
                         THEN Append(result, processes[rcall.k].name)
                         ELSE result
            /\ UNCHANGED <<rret, snapshot>>
    /\ UNCHANGED <<processes, heap, invoked, rcalls, single, window>>

\* lines 202-203: the next item of self._processes.items() is polled and
\* its name kept if it is running; after the last one the list is returned
GetRunningNext ==
    /\ rcall.op = "running" /\ rcall.at = "g202"
    /\ IF rcall.k > Len(processes)
       THEN /\ Return("list", NoRef, result)
            /\ result' = << >>
            /\ snapshot' = {}
       ELSE /\ rcall' = [rcall EXCEPT !.k = @ + 1]
            /\ result' = IF Live(processes[rcall.k].ref)
                         THEN Append(result, processes[rcall.k].name)
                         ELSE result
            /\ UNCHANGED <<rret, snapshot>>
    /\ UNCHANGED <<processes, heap, invoked, rcalls, single, window>>

\* ------------------------------------- children and capture threads
\* The child of instance r exits, by itself or on a SIGTERM it received.
InstChildExit(r) ==
    /\ r \in Refs
    /\ Live(r)
    /\ heap' = [heap EXCEPT ![r].handle = "dead"]
    /\ UNCHANGED <<processes, rcall, rret, result, snapshot, invoked, rcalls,
                   single, window>>

\* Run n of instance r has exited: a newer run exists (line 69 let it be
\* launched) or the handle names an exited child.
RunExited(r, n) == n < heap[r].runs \/ heap[r].handle = "dead"

\* lines 133, 147: readline() raises in the capture thread of run n
InstReadFails(r, n) ==
    /\ r \in Refs
    /\ heap[r].thr[n] = "t133"
    /\ heap' = [heap EXCEPT ![r].thr[n] = "t148"]
    /\ UNCHANGED <<processes, rcall, rret, result, snapshot, invoked, rcalls,
                   single, window>>

\* line 133: readline() returns "": the child of run n has exited
InstReadEof(r, n) ==
    /\ r \in Refs
    /\ heap[r].thr[n] = "t133"
    /\ RunExited(r, n)
    /\ heap' = [heap EXCEPT ![r].thr[n] = "t140"]
    /\ UNCHANGED <<processes, rcall, rret, result, snapshot, invoked, rcalls,
                   single, window>>

\* lines 133-135: a line is read and _stop_requested is set: break
InstReadBreak(r, n) ==
    /\ r \in Refs
    /\ heap[r].thr[n] = "t133"
    /\ heap[r].stop_requested
    /\ heap' = [heap EXCEPT ![r].thr[n] = "t140"]
    /\ UNCHANGED <<processes, rcall, rret, result, snapshot, invoked, rcalls,
                   single, window>>

\* line 140: self._process.wait() returns: the child the handle names now
\* has exited
InstReadWait(r, n) ==
    /\ r \in Refs
    /\ heap[r].thr[n] = "t140"
    /\ ~Live(r)
    /\ heap' = [heap EXCEPT ![r].thr[n] = "t141"]
    /\ UNCHANGED <<processes, rcall, rret, result, snapshot, invoked, rcalls,
                   single, window>>

\* line 141: if not self._stop_requested (otherwise the thread ends)
InstReadCheckRequested(r, n) ==
    /\ r \in Refs
    /\ heap[r].thr[n] = "t141"
    /\ heap' = [heap EXCEPT ![r].thr[n] =
                   IF heap[r].stop_requested THEN "done" ELSE "t142"]
    /\ UNCHANGED <<processes, rcall, rret, result, snapshot, invoked, rcalls,
                   single, window>>

\* lines 142-146: state = STOPPED; emit finished and "Finished with code N"
InstReadSetStopped(r, n) ==
    /\ r \in Refs
    /\ heap[r].thr[n] = "t142"
    /\ heap' = [heap EXCEPT
                  ![r] = [Stored(r, STOPPED, "finished_diag") EXCEPT !.thr[n] = "done"]]
    /\ UNCHANGED <<processes, rcall, rret, result, snapshot, invoked, rcalls,
                   single, window>>

\* lines 148-149: state = ERROR; emit "Output error"
InstReadSetError(r, n) ==
    /\ r \in Refs
    /\ heap[r].thr[n] = "t148"
    /\ heap' = [heap EXCEPT
                  ![r] = [Stored(r, ERROR, "output_error") EXCEPT !.thr[n] = "done"]]
    /\ UNCHANGED <<processes, rcall, rret, result, snapshot, invoked, rcalls,
                   single, window>>

\* One step of a child or of a capture thread of some instance.
InstBackground ==
    \E r \in RefIds :
        \/ InstChildExit(r)
        \/ \E n \in Pids :
              \/ InstReadFails(r, n) \/ InstReadEof(r, n)
              \/ InstReadBreak(r, n) \/ InstReadWait(r, n)
              \/ InstReadCheckRequested(r, n)
              \/ InstReadSetStopped(r, n) \/ InstReadSetError(r, n)

\* One step of start() or stop() in the GUI thread.
InstCallStep ==
    \/ InstStartCheck \/ InstStartResetFlag \/ InstStartPopen
    \/ InstStartPopenFails \/ InstStartSetRunning \/ InstStartThread
    \/ InstStartSetError
    \/ InstStopSetFlag \/ InstStopCheck \/ InstStopTerminate
    \/ InstStopTerminateFails \/ InstStopWaitReturns \/ InstStopWaitTimeout
    \/ InstStopKill \/ InstStopSetStopped

NextRegistry ==
    \/ \E name \in Names : CreateProcess(name) \/ GetProcess(name)
    \/ \E r \in RefIds : CallStartOn(r) \/ CallStopOn(r)
    \/ CallStopAll \/ StopAllNext \/ StopAllPoll
    \/ CallGetRunning \/ GetRunningNext
    \/ InstCallStep
    \/ InstBackground

SpecRegistry == Init /\ [][NextRegistry]_vars

\* ============================================================ main window
\* gui/ui/main_window.py: closeEvent (lines 428-451) and the "Stop All
\* Processes" action (_stop_all_processes, lines 390-405).  Both run in the
\* GUI thread, which makes no other call while a handler is running; the
\* children and the capture threads go on beside it.  The label of a step
\* is "w" followed by the source line it is about to execute.

\* The handler running is h, about to execute the line `at`.
InHandler(h, at) == window.h = h /\ window.at = at

\* The window is open and no handler is running: once a close event has
\* been accepted the window is gone and the GUI makes no further call.
WindowOpen == window.h = "idle" /\ window.event # "accepted"

\* The call the handler made has returned what rret holds.
Returned(call) == rcall = IdleCall /\ rret.call = call

\* The handler ends; event is what it did with the close event.
HandlerEnds(event, stopped) ==
    window' = [NoHandler EXCEPT !.event = event, !.stopped = stopped]

\* line 434: closeEvent calls get_running_processes()
CloseEvent ==
    /\ WindowOpen
    /\ BeginGetRunning
    /\ window' = [NoHandler EXCEPT !.h = "close", !.at = "w435"]

\* lines 434-435: running = the list returned; if running
CloseTestRunning ==
    /\ InHandler("close", "w435")
    /\ Returned("running")
    /\ window' = [window EXCEPT !.running = rret.names,
                                !.at = IF rret.names # << >> THEN "w436"
                                                             ELSE "w450"]
    /\ UNCHANGED <<single, registry>>

\* lines 436-443: QMessageBox.question: the user answers Yes or No
CloseAsk ==
    /\ InHandler("close", "w436")
    /\ \E reply \in {"Yes", "No"} :
          window' = [window EXCEPT !.reply = reply,
                                   !.at = IF reply = "Yes" THEN "w444"
                                                           ELSE "w448"]
    /\ UNCHANGED <<single, registry>>

\* line 444: self.process_manager.stop_all()
CloseStopAll ==
    /\ InHandler("close", "w444")
    /\ BeginStopAllOf(WindowCalls)
    /\ window' = [window EXCEPT !.at = "w445"]

\* lines 445-446: stop_all() has returned; save the geometry, event.accept()
CloseAcceptStopped ==
    /\ InHandler("close", "w445")
    /\ Returned("stop_all")
    /\ HandlerEnds("accepted", TRUE)
    /\ UNCHANGED <<single, registry>>

\* Variant of line 448 that accepts the close event although the user
\* answered No.
CloseIgnoreAccepts ==
    /\ InHandler("close", "w448")
    /\ HandlerEnds("accepted", FALSE)
    /\ UNCHANGED <<single, registry>>

\* line 448: event.ignore()
CloseIgnore ==
    /\ InHandler("close", "w448")
    /\ HandlerEnds("ignored", FALSE)
    /\ UNCHANGED <<single, registry>>

\* lines 450-451: nothing is running: save the geometry, event.accept()
CloseAcceptIdle ==
    /\ InHandler("close", "w450")
    /\ HandlerEnds("accepted", FALSE)
    /\ UNCHANGED <<single, registry>>

\* line 392: _stop_all_processes calls get_running_processes()
StopAllAction ==
    /\ WindowOpen
    /\ BeginGetRunning
    /\ window' = [NoHandler EXCEPT !.h = "stop_action", !.at = "w393"]

\* lines 392-393: running = the list returned; if running
StopAllActionTestRunning ==
    /\ InHandler("stop_action", "w393")
    /\ Returned("running")
    /\ window' = [window EXCEPT !.running = rret.names,
                                !.at = IF rret.names # << >> THEN "w394"
                                                             ELSE "w405"]
    /\ UNCHANGED <<single, registry>>

\* lines 394-401: QMessageBox.question: the user answers Yes or No; on No
\* the handler ends
StopAllActionAsk ==
    /\ InHandler("stop_action", "w394")
    /\ \E reply \in {"Yes", "No"} :
          IF reply = "Yes"
          THEN window' = [window EXCEPT !.reply = reply, !.at = "w402"]
          ELSE HandlerEnds("-", FALSE)
    /\ UNCHANGED <<single, registry>>

\* line 402: self.process_manager.stop_all()
StopAllActionStopAll ==
    /\ InHandler("stop_action", "w402")
    /\ BeginStopAllOf(WindowCalls)
    /\ window' = [window EXCEPT !.at = "w403"]

\* line 403: stop_all() has returned; log "All processes stopped"
StopAllActionDone ==
    /\ InHandler("stop_action", "w403")
    /\ Returned("stop_all")
    /\ HandlerEnds("-", TRUE)
    /\ UNCHANGED <<single, registry>>

\* line 405: log "No processes running"
StopAllActionNone ==
    /\ InHandler("stop_action", "w405")
    /\ HandlerEnds("-", FALSE)
    /\ UNCHANGED <<single, registry>>

\* A module of the GUI creates, starts or stops a process between two
\* handlers of the main window.
ModuleCall ==
    /\ WindowOpen
    /\ \/ \E name \in Names : CreateProcess(name)
       \/ \E r \in RefIds : \/ CallStartOnOf(r, WindowCalls)
                             \/ CallStopOnOf(r, WindowCalls)

NextWindow ==
    \/ ModuleCall
    \/ CloseEvent \/ CloseTestRunning \/ CloseAsk \/ CloseStopAll
    \/ CloseAcceptStopped \/ CloseIgnore \/ CloseAcceptIdle
    \/ StopAllAction \/ StopAllActionTestRunning \/ StopAllActionAsk
    \/ StopAllActionStopAll \/ StopAllActionDone \/ StopAllActionNone
    \/ StopAllNext \/ StopAllPoll \/ GetRunningNext
    \/ InstCallStep
    \/ InstBackground

SpecWindow == Init /\ [][NextWindow]_vars

\* ===================================================== registry properties
\* Every capture thread of instance r has ended (or was never started).
ThreadsEnded(r) == \A n \in Pids : heap[r].thr[n] \in {"none", "done"}

\* C24: when stop_all() returns, no tracked instance is running (an
\* immediate get_running_processes() returns the empty list), and every
\* instance that was running when stop_all() was called and that
\* stop_all() found running at line 191 is in state Stopped (as soon as
\* its capture threads have ended).
C24_StopAllLeavesNoneRunning ==
    [][(rcall.op = "stop_all" /\ rcall' = IdleCall)
          => /\ \A r \in Tracked : ~Live(r)
             /\ \A r \in snapshot \cap invoked :
                   ThreadsEnded(r) => heap[r].state = STOPPED]_vars

\* stop_all() is at the end of its loop (line 190 has no further value).
StopAllAtEnd ==
    rcall.op = "stop_all" /\ rcall.at = "a190" /\ rcall.k > Len(processes)

\* C25: stop_all() returns normally (None), and when it returns stop() has
\* been invoked on every tracked instance that is still running, whatever
\* happened while stopping the others: an instance left running by a failed
\* stop is itself one stop() was invoked on (its flag is set).
C25_StopAllStopsEachIndependently ==
    [][(rcall.op = "stop_all" /\ rcall' = IdleCall)
          => /\ rret'.kind = "None"
             /\ \A r \in Tracked :
                   Live(r) => r \in invoked /\ heap[r].stop_requested]_vars

\* stop_all() is about to return after stop() was invoked on two instances,
\* the first of which is still running because its terminate() failed.
C25_Witness ==
    /\ StopAllAtEnd
    /\ Len(processes) = 2
    /\ processes[1].ref \in invoked /\ Live(processes[1].ref)
    /\ processes[2].ref \in invoked /\ ~Live(processes[2].ref)

\* No name is registered twice and no object is registered under two names.
OneEntryPerName ==
    \A i, j \in DOMAIN processes :
        (processes[i].name = processes[j].name
            \/ processes[i].ref = processes[j].ref) => i = j

\* C26: create_process(name) returns the instance registered under name if
\* there is one, leaving it and the registry as they are (its state is not
\* reset); otherwise it registers and returns a new instance in state
\* Stopped with no process handle, leaving every other instance alone.
\* get_process(name) returns that same instance, and the instance a name
\* is bound to never changes, so all calls with one name return one instance.
C26_CreateReturnsOneInstancePerName ==
    [][/\ \A name \in Names :
            CreateProcess(name) =>
               /\ rret'.kind = "instance"
               /\ rret'.ref # NoRef
               /\ rret'.ref = Lookup(name)'
               /\ OneEntryPerName'
               /\ IF Lookup(name) # NoRef
                  THEN /\ rret'.ref = Lookup(name)
                       /\ heap' = heap
                       /\ processes' = processes
                  ELSE /\ rret'.ref \notin Refs
                       /\ heap'[rret'.ref].state = STOPPED
                       /\ heap'[rret'.ref].handle = "none"
                       /\ \A r \in Refs : heap'[r] = heap[r]
       /\ \A name \in Names :
            (GetProcess(name) /\ Lookup(name) # NoRef) =>
               rret'.kind = "instance" /\ rret'.ref = Lookup(name)
       /\ \A name \in Names :
            Lookup(name) # NoRef => Lookup(name)' = Lookup(name)]_vars

\* create_process(name) has just returned the instance registered under
\* name, which is running: it was not replaced by a new one.
C26_Witness ==
    /\ rcall = IdleCall
    /\ rret.call = "create"
    /\ rret.ref \in Refs
    /\ rret.ref = Lookup(rret.arg)
    /\ heap[rret.ref].state = RUNNING
    /\ Live(rret.ref)

\* C27: get_process(name) returns the instance registered under name, or
\* None if there is none, and changes neither the registry nor any
\* instance; a name becomes registered only by a create_process(name)
\* step, so get_process on an unknown name keeps returning None until then.
C27_GetProcessPureLookup ==
    [][/\ \A name \in Names :
            GetProcess(name) =>
               /\ processes' = processes
               /\ heap' = heap
               /\ rret'.ref = Lookup(name)
               /\ rret'.kind = IF Lookup(name) = NoRef THEN "None"
                                                       ELSE "instance"
       /\ \A name \in Names :
            (Lookup(name) = NoRef /\ Lookup(name)' # NoRef) =>
               rret'.call = "create" /\ rret'.arg = name]_vars

\* get_process on an unknown name has just returned None, on a registry
\* that tracks another, running instance; the name is still unknown.
C27_Witness ==
    /\ rcall = IdleCall
    /\ rret.call = "get"
    /\ rret.kind = "None"
    /\ Lookup(rret.arg) = NoRef
    /\ \E r \in Tracked : Live(r)

\* C28: no step removes, replaces or reorders an entry of the registry:
\* every entry stays where it is with the same name and the same instance,
\* and the instance itself stays in existence; entries are only added.
C28_RegistryOnlyGrows ==
    [][/\ Len(processes') >= Len(processes)
       /\ \A i \in DOMAIN processes : processes'[i] = processes[i]
       /\ Refs \subseteq DOMAIN heap']_vars

\* A registered instance is running its second child: it was started,
\* ended, and was started again under the same entry.
C28_Witness ==
    \E i \in DOMAIN processes :
        /\ heap[processes[i].ref].runs = 2
        /\ Live(processes[i].ref)
        /\ heap[processes[i].ref].state = RUNNING

\* The elements of a sequence.
Range(seq) == {seq[i] : i \in DOMAIN seq}

\* C29: the list get_running_processes() returns holds the name of every
\* tracked instance that is running when it returns (none missing), only
\* names of tracked instances that were running when it was called (none
\* extra; a child can exit between the two instants), each name once; and
\* no step of the call changes an instance or the registry.
C29_RunningNamesExact ==
    [][/\ (rcall.op = "running" /\ rcall' = IdleCall) =>
            /\ rret'.kind = "list"
            /\ \A i \in DOMAIN processes :
                  Live(processes[i].ref) =>
                      processes[i].name \in Range(rret'.names)
            /\ \A n \in Range(rret'.names) : Lookup(n) \in snapshot
            /\ \A i, j \in DOMAIN rret'.names :
                  rret'.names[i] = rret'.names[j] => i = j
       /\ (rcall.op = "running" /\ rcall' # rcall) =>
            heap' = heap /\ processes' = processes]_vars

\* get_running_processes() has just returned the name of the second of
\* two tracked instances: the first was started and its child has exited,
\* the second is running.
C29_Witness ==
    /\ rcall = IdleCall
    /\ rret.call = "running"
    /\ Len(processes) = 2
    /\ rret.names = <<processes[2].name>>
    /\ heap[processes[1].ref].runs >= 1 /\ ~Live(processes[1].ref)
    /\ Live(processes[2].ref)

\* C30: a step changes the fields (state, stop_requested, handle, threads,
\* last signal) of at most one instance, and a step of start() or stop()
\* changes only the instance it was called on; so nothing one instance's
\* start(), stop() or capture thread does reaches another instance.
C30_InstancesIndependent ==
    [][\A r \in Refs :
          heap'[r] # heap[r] =>
             /\ \A q \in Refs \ {r} : heap'[q] = heap[q]
             /\ rcall' # rcall => rcall.ref = r]_vars

\* stop() on one instance is waiting for its child (line 110) while the
\* capture thread of another instance, whose child exited by itself, is
\* about to store Stopped (line 142).
C30_Witness ==
    /\ rcall.op = "stop" /\ rcall.at = "p110"
    /\ Live(rcall.ref)
    /\ \E q \in Refs \ {rcall.ref} : \E n \in Pids : heap[q].thr[n] = "t142"

\* ================================================ order of delivered lines
\* The lines of run p delivered so far, in delivery order.
LinesOf(p) == SelectSeq(events, LAMBDA e : e.k = "line" /\ e.run = p)

\* C31: the lines of a run are delivered in the order the child wrote
\* them, each at most once and none skipped: the i-th line delivered of run
\* p is the i-th line that child p wrote.
C31_LinesInOrder ==
    \A p \in Pids : \A i \in DOMAIN LinesOf(p) : LinesOf(p)[i].n = i

\* C32: start() launches the child (line 75) and creates the capture
\* thread of the run (lines 90-93) with stop_requested = false, whatever an
\* earlier stop() left in it, so the reset precedes every check that
\* thread makes; and the first statement of stop() (line 103) sets
\* stop_requested = true whatever the state is.
C32_FlagResetPerRun ==
    [][\A c \in Callers :
          /\ (pc[c] = "s75" /\ pc'[c] # "s75") => ~stop_requested
          /\ (pc[c] = "s90" /\ pc'[c] # "s90") =>
                ~stop_requested /\ ~stop_requested'
          /\ (pc[c] = "p103" /\ pc'[c] # "p103") => stop_requested']_vars

\* The capture thread of the second run is at its first check (line 134)
\* with stop_requested = false, after a stop() that ended the first run had
\* set it to true.
C32_Witness ==
    /\ launched = 2
    /\ tpc[2] = "t134"
    /\ ~stop_requested
    /\ calls.stop = 1
    /\ \E i \in DOMAIN events : events[i].k = "stopped" /\ events[i].run = 1

\* The states the generic supervisor stores.
SupervisorStates == {STOPPED, RUNNING, ERROR}

\* C33: the state of every instance is Stopped, Running or Error, never
\* Paused, while Paused is a member of ProcessState distinct from them.
C33_NeverPaused ==
    /\ state \in SupervisorStates
    /\ \A r \in Refs : heap[r].state \in SupervisorStates
    /\ PAUSED \in ProcessState \ SupervisorStates

\* Of two tracked instances one is in Error and the other is Running
\* while stop() is waiting for its child.
C33_Witness ==
    /\ InStopAt("p110")
    /\ heap[rcall.ref].state = RUNNING
    /\ \E q \in Refs : heap[q].state = ERROR

\* Capture thread t is still active after start() has launched a later run:
\* self._process names another child than the one t was created for.
Stale(t) == tpc[t] \notin {"none", "done"} /\ process # NoProc /\ process # t

\* C34: a capture thread of an earlier run does not wait on the child of
\* the later run (line 140), does not store Stopped (line 142) and does not
\* emit the exit-code notification or the "Finished" diagnostic (lines
\* 143-146).
C34_StaleThreadHarmless ==
    [][\A t \in Pids :
          Stale(t) =>
             /\ waited'[t] \in {NoProc, t}
             /\ ~(tpc[t] = "t142w" /\ tpc'[t] # "t142w")
             /\ ~(tpc[t] \in {"t143", "t144"} /\ tpc'[t] # tpc[t])]_vars

\* The stop() in progress in caller c has emitted "Error stopping": its
\* terminate() raised.
StopFailed(c) ==
    \E i \in DOMAIN events :
        /\ events[i].k = "error_stopping" /\ events[i].by = c
        /\ \A j \in DOMAIN events : j > i => events[j].k # "stopping"

\* C35: a stop() whose terminate() raised emits "Error stopping" and then
\* "Stopped", and when it returns the state is Stopped.
C35_FailedStopReturnsStopped ==
    [][\A c \in Callers :
          (pc[c] = "p118" /\ pc'[c] = "idle" /\ StopFailed(c)) =>
              /\ state' = STOPPED
              /\ events'[Len(events')].k = "stopped"]_vars

\* C36: stop_all() does not call stop() on a tracked instance whose
\* is_running() is false at line 191, and no step of stop_all() changes the
\* state, the flag or the last signal of an instance it did not call stop()
\* on; the capture threads never change a flag, so a transition that the
\* capture thread of such an instance still has to make is not suppressed.
C36_StopAllSkipsIdle ==
    [][/\ (rcall.op = "stop_all" /\ rcall.at = "a191" /\ ~Live(rcall.ref)
             /\ rcall' # rcall)
          => rcall'.at = "a190" /\ invoked' = invoked /\ heap' = heap
       /\ (rcall.op = "stop_all" /\ rcall' # rcall)
          => \A r \in Refs :
                heap'[r] # heap[r] => r \in invoked /\ r = rcall.ref
       /\ rcall' = rcall
          => \A r \in Refs :
                heap'[r].stop_requested = heap[r].stop_requested]_vars

\* stop_all() is about to return: it called stop() on one instance and
\* skipped another, whose child had exited by itself and whose capture
\* thread is about to store Stopped (line 142) with the flag unset.
C36_Witness ==
    /\ StopAllAtEnd
    /\ invoked # {}
    /\ \E r \in Tracked \ invoked :
          /\ ~Live(r)
          /\ heap[r].state = RUNNING
          /\ ~heap[r].stop_requested
          /\ \E n \in Pids : heap[r].thr[n] = "t142"

\* C37: a launch that fails leaves the handle as it was and creates no
\* child (from the failing Popen of line 75 to the return of line 99); when
\* start() then returns False, is_running() is false and stop_requested is
\* false; and a stop() that follows the failed launch returns from line 104
\* having emitted nothing and changed neither the state nor the handle.
C37_FailedLaunchLeavesHandle ==
    [][\A c \in Callers :
          /\ ((pc[c] = "s75" /\ pc'[c] = "s97") \/ InLaunchFailure(c))
                => process' = process /\ launched' = launched
          /\ (pc[c] = "s98" /\ pc'[c] = "idle")
                => /\ ret'[c] = "False"
                   /\ ~(process' # NoProc /\ proc'[process'].st = "alive")
                   /\ ~stop_requested'
          /\ (LaunchFailedLast /\ InStop(c) /\ pc'[c] # pc[c])
                => /\ pc'[c] \in {"p104", "idle"}
                   /\ UNCHANGED <<state, process, os, events>>]_vars

\* After a run whose child exited, a second launch failed and a stop()
\* followed and has returned: the handle still names the exited child of
\* the first run and the state is Error.
C37_Witness ==
    /\ LaunchFailedLast
    /\ pc[MainCaller] = "idle" /\ ret[MainCaller] = "None"
    /\ calls.stop = 1 /\ calls.start = 2
    /\ stop_requested
    /\ events[Len(events)].k = "error_starting"
    /\ process = 1 /\ proc[1].st = "dead"
    /\ state = ERROR

\* ====================================================== window properties
\* C38: closeEvent accepts the event only if the list it got from
\* get_running_processes() was empty, or the user answered Yes and
\* stop_all() was called and has returned; after a No the event is ignored
\* and the handler makes no call on the registry; and stop_all() is called,
\* by closeEvent and by the "Stop All Processes" action alike, only after a
\* Yes to a question asked because the list was not empty.
C38_CloseOnlyWhenSafe ==
    [][/\ (window'.event = "accepted" /\ window.event # "accepted")
            => /\ window.h = "close"
               /\ \/ window.running = << >> /\ window.reply = "-"
                  \/ /\ window.reply = "Yes"
                     /\ window'.stopped
                     /\ Returned("stop_all")
       /\ (window.h = "close" /\ window.reply = "No" /\ window' # window)
            => /\ window'.event = "ignored"
               /\ UNCHANGED registry
       /\ window.reply = "No" => rcall = IdleCall /\ rcall' = IdleCall
       /\ (rcall.op # "stop_all" /\ rcall'.op = "stop_all")
            => /\ window.h \in {"close", "stop_action"}
               /\ window.reply = "Yes"
               /\ window.running # << >>]_vars

\* A close event has been accepted after the user confirmed and stop_all()
\* stopped the two processes that were running.
C38_Witness ==
    /\ window.event = "accepted"
    /\ window.stopped
    /\ Len(processes) = 2
    /\ \A r \in Tracked : heap[r].runs = 1 /\ ~Live(r) /\ heap[r].stop_requested
====
